---- MODULE Spec2Model ----
(***************************************************************************)
(* Model of the job orchestration engine of infinitetalk-api:              *)
(*   - the Job aggregate and its state machine   (internal/job/job.go)     *)
(*   - the in-memory repository                  (internal/job/memory.go)  *)
(*   - the ProcessVideoService control loop      (internal/job/service.go) *)
(*                                                                         *)
(*   - the audio splitter and the local storage  (internal/audio,          *)
(*                                                 internal/storage)       *)
(*                                                                         *)
(* The specifications share the variables:                                 *)
(*   SpecJob : one Job object driven through its public methods with       *)
(*             arbitrary arguments;                                        *)
(*   Spec    : the service - CreateJob / Process / ProcessExistingJob /    *)
(*             DeleteJobVideo on one job id; processing runs follow each   *)
(*             other and a run's context may be cancelled;                 *)
(*   SpecConc: two processing runs of the same job id that overlap;        *)
(*   SpecDelete  : DeleteJobVideo called repeatedly, also on an unknown    *)
(*                 job id;                                                 *)
(*   SpecRepo    : the in-memory repository and its callers' copies, as    *)
(*                 objects and arrays at addresses;                        *)
(*   SpecFiles   : the files two jobs write in the shared temp directory;  *)
(*   SpecChunks  : a run under a configured number of concurrent chunks;   *)
(*   SpecSplit   : Splitter.Split on bounded recordings and silences;      *)
(*   SpecScenario: one run on a 130 s recording with two silences and a    *)
(*                 provider that never fails;                              *)
(*   SpecPoll    : one wait of pollForResultWithGenerator, tick by tick;   *)
(*   SpecRetry   : one call of the RunPod client's doRequestWithRetry;     *)
(*   SpecCuts    : the cut-point loops of the splitter, one iteration a    *)
(*                 step, for any integer target;                           *)
(*   SpecExtract : one call of the splitter's extractChunks, one ffmpeg    *)
(*                 run a step;                                             *)
(*   SpecAdapter : polls through the RunPod and the Beam adapter.          *)
(***************************************************************************)
EXTENDS Integers, Sequences, FiniteSets, TLC

\* ------------------------------------------------------------------ bounds
\* largest number of segments the Splitter returns in the model
MaxChunks == 3
\* largest number of segments when two runs overlap (SpecConc)
MaxChunksConc == 2
\* largest number of poll ticks the model follows for one chunk
MaxPolls == 2

\* the processing runs (invocations of processJob) the model follows
Runs == {"r1", "r2"}

\* ------------------------------------------------------- job.go: statuses
StatusInQueue   == "IN_QUEUE"
StatusRunning   == "RUNNING"
StatusCompleted == "COMPLETED"
StatusFailed    == "FAILED"
StatusCancelled == "CANCELLED"
StatusTimedOut  == "TIMED_OUT"

Statuses ==
  {StatusInQueue, StatusRunning, StatusCompleted, StatusFailed,
   StatusCancelled, StatusTimedOut}

TerminalStatuses ==
  {StatusCompleted, StatusFailed, StatusCancelled, StatusTimedOut}

ChunkStatusPending    == "PENDING"
ChunkStatusProcessing == "PROCESSING"
ChunkStatusCompleted  == "COMPLETED"
ChunkStatusFailed     == "FAILED"

ProviderRunPod == "runpod"
ProviderBeam   == "beam"

\* errors are sequences of message parts, outermost wrapper first
\* (fmt.Errorf("...: %w", err) prepends one part); <<>> is the empty string
NoError == << >>
ErrInvalidTransition == <<"invalid state transition">>

\* validTransitions with one entry corrupted: COMPLETED may restart
validTransitionsReopen ==
  [s \in Statuses |->
     CASE s = StatusInQueue   -> {StatusRunning, StatusCancelled, StatusTimedOut}
       [] s = StatusRunning   -> {StatusCompleted, StatusFailed, StatusCancelled, StatusTimedOut}
       [] s = StatusCompleted -> {StatusRunning}
       [] OTHER               -> {}]

\* the table of allowed transitions
validTransitions ==
  [s \in Statuses |->
     CASE s = StatusInQueue   -> {StatusRunning, StatusCancelled, StatusTimedOut}
       [] s = StatusRunning   -> {StatusCompleted, StatusFailed, StatusCancelled, StatusTimedOut}
       [] s = StatusCompleted -> {}
       [] s = StatusFailed    -> {}
       [] s = StatusCancelled -> {}
       [] s = StatusTimedOut  -> {}]

canTransition(from, to) ==
  /\ from \in DOMAIN validTransitions
  /\ to \in validTransitions[from]

\* a chunk numbered from one
NewChunkOneBased(i) ==
  [index |-> i + 1, status |-> ChunkStatusPending, error |-> NoError,
   inputPath |-> "", hasOutput |-> FALSE, outputPath |-> "",
   submitted |-> FALSE]

\* a chunk record as created by processJob, before its InputPath is set
NewChunk(i) ==
  [index |-> i, status |-> ChunkStatusPending, error |-> NoError,
   inputPath |-> "", hasOutput |-> FALSE, outputPath |-> "",
   submitted |-> FALSE]

\* New(): a job in IN_QUEUE with no chunks
NewJob(provider, push) ==
  [status |-> StatusInQueue, provider |-> provider, chunks |-> << >>,
   progress |-> 0, error |-> NoError,
   outputVideoPath |-> "", videoURL |-> "", pushToS3 |-> push,
   startedAt |-> FALSE, completedAt |-> FALSE]

\* chunks are indexed 0..n-1 as in the source
NumChunks(j) == Cardinality(DOMAIN j.chunks)

\* TransitionTo: the job after the call and the returned error
TransitionTo(j, status) ==
  IF ~canTransition(j.status, status)
  THEN [job |-> j, err |-> ErrInvalidTransition]
  ELSE [job |-> [j EXCEPT !.status = status,
                          !.startedAt = IF status = StatusRunning
                                        THEN TRUE ELSE @,
                          !.completedAt = IF status \in TerminalStatuses
                                          THEN TRUE ELSE @],
        err |-> NoError]

Start(j)    == TransitionTo(j, StatusRunning)
Complete(j) == TransitionTo(j, StatusCompleted)

\* Fail: records the message, then attempts the transition to FAILED
Fail(j, errMsg) == TransitionTo([j EXCEPT !.error = errMsg], StatusFailed)

SetChunks(j, chunks) == [j EXCEPT !.chunks = chunks]

UpdateChunk(j, index, chunk) ==
  IF index >= 0 /\ index < NumChunks(j)
  THEN [j EXCEPT !.chunks[index] = chunk]
  ELSE j

UpdateProgress(j, progress) ==
  [j EXCEPT !.progress = IF progress < 0 THEN 0
                         ELSE IF progress > 100 THEN 100 ELSE progress]

SetOutput(j, videoPath, videoURL) ==
  [j EXCEPT !.outputVideoPath = videoPath, !.videoURL = videoURL]

\* a ClearOutput that also resets the progress
ClearOutputResetsProgress(j) ==
  [j EXCEPT !.outputVideoPath = "", !.videoURL = "", !.progress = 0]

ClearOutput(j) == [j EXCEPT !.outputVideoPath = "", !.videoURL = ""]

IsTerminal(j) == j.status \in TerminalStatuses

\* Clone: a value copy; records are values, so the copy is the record
Clone(j) == j


\* ------------------------------------------------------------------ state
VARIABLES
  repo,         \* MemoryRepository.jobs for the one job id: {} or {job}
  run,          \* per processing run: position in processJob and its locals
  beamEnabled,  \* whether the service was built with a Beam client
  del,          \* the DeleteJobVideo call in progress, and how many were made
  scope,        \* what the environment may do in this specification:
                \* whether local steps may fail, whether the provider may fail,
                \* how many segments Split may return,
                \* how many DeleteJobVideo calls are followed
  jb,           \* SpecJob: the Job object under test
  lastOp,       \* SpecJob: the last method called on jb and what it returned
  mem,          \* SpecRepo: the Job objects in memory, the one the repository
                \* holds and the ones its callers hold
  files,        \* SpecFiles: the temporary directory and, for each of two
                \* jobs, where its run is and the paths it wrote and deleted
  maxConcurrentChunks,  \* the configured limit of chunks processed in parallel
  splitter,     \* SpecSplit: one call of FFmpegSplitter.Split, its input and
                \* its result
  poller,       \* SpecPoll: one call of pollForResultWithGenerator, what the
                \* provider answered and what the call returned
  request,      \* SpecRetry: one call of doRequestWithRetry, its attempts,
                \* its waits and what it returned
  cuts,         \* SpecCuts: the cut-point computation of one Split call,
                \* followed one loop iteration at a time
  extractor,    \* SpecExtract: one call of extractChunks, the files in the
                \* output directory and what the call returned
  adapter       \* SpecAdapter: the polls made through a provider adapter,
                \* what the provider said and what the adapter returned

\* the variables of the service and of the Job under test
serviceVars == <<repo, run, beamEnabled, del, scope, jb, lastOp>>

\* the variables the service's actions do not touch
sideVars == <<mem, files, maxConcurrentChunks, splitter, poller, request, cuts, extractor, adapter>>

\* what the repository's and the file steps' actions leave alone
otherThanMem == <<serviceVars, files, maxConcurrentChunks, splitter, poller, request, cuts, extractor, adapter>>
otherThanFiles == <<serviceVars, mem, maxConcurrentChunks, splitter, poller, request, cuts, extractor, adapter>>
otherThanSplitter == <<serviceVars, mem, files, maxConcurrentChunks, poller, request, cuts, extractor, adapter>>
otherThanPoller == <<serviceVars, mem, files, maxConcurrentChunks, splitter, request, cuts, extractor, adapter>>
otherThanRequest == <<serviceVars, mem, files, maxConcurrentChunks, splitter, poller, cuts, extractor, adapter>>
otherThanCuts == <<serviceVars, mem, files, maxConcurrentChunks, splitter, poller, request, extractor, adapter>>
otherThanExtractor == <<serviceVars, mem, files, maxConcurrentChunks, splitter, poller, request, cuts, adapter>>
otherThanAdapter == <<serviceVars, mem, files, maxConcurrentChunks, splitter, poller, request, cuts, extractor>>

vars == <<serviceVars, sideVars>>

\* largest number of DeleteJobVideo calls the model follows
MaxDeletes == 1
\* largest number of DeleteJobVideo calls when they are followed one after
\* another (SpecDelete)
MaxDeletesSeq == 2

NoOutcome == [status |-> "", error |-> NoError, videoPath |-> "", videoURL |-> ""]

\* the locals of processJob before the call
IdleRun ==
  [pc |-> "idle", job |-> NewJob(ProviderRunPod, FALSE),
   input |-> [dryRun |-> FALSE, pushToS3 |-> FALSE],
   i |-> 0, audioChunks |-> << >>, videoPaths |-> << >>, tempFiles |-> {},
   created |-> {}, cleaned |-> {}, cleanupErr |-> FALSE,
   cancelled |-> FALSE, observed |-> FALSE,
   submitted |-> {}, submitCalls |-> 0, polled |-> {}, pollCount |-> 0,
   joinCalls |-> 0, joined |-> << >>, uploadURL |-> "",
   failedAt |-> -1, outcome |-> NoOutcome]

NoOp == [op |-> "none", from |-> "", to |-> "", err |-> NoError]

\* the persisted job (FindByID on the one id)
TheJob == CHOOSE j \in repo : TRUE

\* ------------------------------------------------------------ file names
ImagePath   == "image.png"
AudioPath   == "audio.wav"
ResizedPath == "resized.png"
OutputPath  == "output.mp4"
SegPath(i)   == "chunk_00" \o ToString(i) \o ".wav"
VideoPath(i) == "chunk_" \o ToString(i) \o ".mp4"

ChunkFailed(i) == "chunk " \o ToString(i) \o " failed"

ErrContextCancelled  == <<"context cancelled", "context canceled">>
ErrNoVideoOutput     == <<"no video output from provider">>
ErrProviderJobFailed    == <<"provider job failed">>
ErrProviderJobCancelled == <<"provider job cancelled">>
ErrProviderJobTimedOut  == <<"provider job timed out">>
ErrBeamClientNotInitialized == <<"beam client not initialized">>
ErrJobNotFound == "find job: job not found"

\* ------------------------------------------------------ service helpers
\* getGenerator: the error it returns, NoError when an adapter is built
getGenerator(provider) ==
  CASE provider = ProviderRunPod -> NoError
    [] provider = ProviderBeam ->
         IF beamEnabled THEN NoError ELSE ErrBeamClientNotInitialized
    [] OTHER -> <<"invalid provider">>

\* updateChunkStatus
updateChunkStatus(j, idx, status, errMsg) ==
  IF idx >= 0 /\ idx < NumChunks(j)
  THEN [j EXCEPT !.chunks[idx].status = status, !.chunks[idx].error = errMsg]
  ELSE j

\* progress after chunk i of n, with nothing reserved for joining
ChunkProgressFull(i, n) == ((i + 1) * 100) \div n

\* progress after chunk i of n completed (10% reserved for joining)
ChunkProgress(i, n) == ((i + 1) * 90) \div n

\* failJob: Fail, Save, build the output; the run then returns
failJob(rr, errMsg) ==
  LET f == Fail(rr.job, errMsg)
  IN  [rr EXCEPT !.job = f.job,
                 !.outcome = [status |-> f.job.status, error |-> errMsg,
                              videoPath |-> "", videoURL |-> ""],
                 !.pc = "cleanup"]

\* failChunk that forgets to mark the chunk
failChunkUnmarked(rr, stage, err) ==
  failJob([rr EXCEPT !.failedAt = rr.i], <<ChunkFailed(rr.i), stage>> \o err)

\* a chunk step fails with err: the chunk is marked FAILED, the loop returns
\* "chunk i failed: <stage>: err" and processJob calls failJob with it
failChunk(rr, stage, err) ==
  LET j1 == updateChunkStatus(rr.job, rr.i, ChunkStatusFailed, err)
  IN  failJob([rr EXCEPT !.job = j1, !.failedAt = rr.i],
              <<ChunkFailed(rr.i), stage>> \o err)

\* the URLs StoragePort.UploadToS3 can return
DefaultURL == "https://s3/videos/job.mp4"
UploadURLs == {DefaultURL, "https://cdn/videos/job.mp4"}

\* a completeJob that records the joined path and drops the URL
completeJobNoURL(rr, videoURL) ==
  LET c == Complete(UpdateProgress(SetOutput(rr.job, OutputPath, ""), 100))
  IN  IF c.err # NoError
      THEN [rr EXCEPT !.job = c.job, !.pc = "cleanup"]
      ELSE [rr EXCEPT !.job = c.job,
                      !.outcome = [status |-> c.job.status, error |-> NoError,
                                   videoPath |-> OutputPath,
                                   videoURL |-> videoURL],
                      !.pc = "cleanup"]

\* step 8 of processJob: SetOutput, UpdateProgress(100), Complete, Save
completeJob(rr, videoURL) ==
  LET c == Complete(UpdateProgress(SetOutput(rr.job, OutputPath, videoURL), 100))
  IN  IF c.err # NoError
      THEN [rr EXCEPT !.job = c.job, !.pc = "cleanup"]
      ELSE [rr EXCEPT !.job = c.job,
                      !.outcome = [status |-> c.job.status, error |-> NoError,
                                   videoPath |-> OutputPath,
                                   videoURL |-> videoURL],
                      !.pc = "cleanup"]

\* what the run hands to repo.Save after a step (nothing when Complete failed)
Saved(old, new) ==
  IF new.outcome = NoOutcome /\ new.pc = "cleanup" THEN old ELSE {Clone(new.job)}


\* ------------------------------------------------- Job objects in memory
\* largest number of Job objects and of chunk slices allocated (SpecRepo)
MaxObjects == 3
MaxArrays == 3

\* objs: the Job objects by address; arrs: the backing arrays of their Chunks
\* slices by address (0 is the nil slice); stored: the address in
\* MemoryRepository.jobs under the one id (0 when absent); held: the
\* addresses callers hold; op: the last operation
NoMem == [objs |-> << >>, arrs |-> << >>, stored |-> 0, held |-> {}, op |-> "none"]

\* the two jobs of SpecFiles
Jobs == {"j1", "j2"}

\* disk: which job's run wrote each file of the temporary directory last
\* (paths not in the domain do not exist); per job, the position of its run,
\* its tempFiles, and every path it has written, read or deleted
NoFiles ==
  [disk |-> << >>,
   job |-> [j \in Jobs |->
             [pc |-> "idle", n |-> 0, i |-> 0, tempFiles |-> {},
              written |-> {}, deleted |-> {}, readFrom |-> {}]]]

\* ------------------------------------------------------ the audio splitter
\* Times are float64 seconds in the source; here they are whole ticks, with
\* enough ticks to a second that a third and a half of every target, and the
\* middle of every silence the model draws, are whole numbers of ticks.
TicksPerSecond == 6

\* the longest recording, in ticks, and the largest number of silences
MaxDuration == 28
MaxSilences == 2

\* ChunkTargetSec values, and the lengths of silences in ticks
TargetArgs == {1, 2, 3}
SilenceLengths == {2, 4}

ErrInputNotFound == "input file does not exist"

\* no Split call has been made
NoSplit == [pc |-> "idle",
            input |-> [exists |-> FALSE, duration |-> 0, targetSec |-> 1,
                       silences |-> << >>],
            result |-> [err |-> "", segments |-> << >>, points |-> << >>,
                        copied |-> FALSE, detected |-> FALSE]]

abs(x) == IF x < 0 THEN -x ELSE x

\* the middle of silence interval sil
SilenceMiddle(sil) == (sil.start + sil.end) \div 2

\* the loop of findBestSilence from index i on: the index of the best silence
\* so far (0 for none) and its distance
RECURSIVE findBestLoop(_, _, _, _, _, _)
findBestLoop(silences, i, idealPoint, tolerance, best, bestDistance) ==
  IF i > Len(silences) THEN best
  ELSE LET silenceMiddle == SilenceMiddle(silences[i])
           distance == abs(silenceMiddle - idealPoint)
       IN  IF silenceMiddle < idealPoint - tolerance
           THEN findBestLoop(silences, i + 1, idealPoint, tolerance, best, bestDistance)
           ELSE IF silenceMiddle > idealPoint + tolerance
           THEN best
           ELSE IF distance < bestDistance
           THEN findBestLoop(silences, i + 1, idealPoint, tolerance, i, distance)
           ELSE findBestLoop(silences, i + 1, idealPoint, tolerance, best, bestDistance)

\* a findBestSilence that accepts a silence at any distance
findBestSilenceAnywhere(silences, idealPoint, tolerance) ==
  findBestLoop(silences, 1, idealPoint, idealPoint + tolerance, 0,
               idealPoint + tolerance)

\* findBestSilence: the silence closest to idealPoint within tolerance
findBestSilence(silences, idealPoint, tolerance) ==
  findBestLoop(silences, 1, idealPoint, tolerance, 0, tolerance)

\* fixed points that run up to the end of the recording
fixedSplitPointsToEnd(totalDuration, target) ==
  [k \in 1..((totalDuration - 1) \div target) |-> k * target]

\* fixedSplitPoints: for t := target; t < totalDuration-1; t += target
RECURSIVE fixedLoop(_, _, _, _)
fixedLoop(t, totalDuration, target, points) ==
  IF t < totalDuration - TicksPerSecond
  THEN fixedLoop(t + target, totalDuration, target, Append(points, t))
  ELSE points

fixedSplitPoints(totalDuration, target) ==
  fixedLoop(target, totalDuration, target, << >>)

\* the loop of calculateSplitPoints
RECURSIVE splitLoop(_, _, _, _, _)
splitLoop(silences, totalDuration, target, lastSplit, splitPoints) ==
  IF ~(lastSplit < totalDuration - target \div 2) THEN splitPoints
  ELSE LET idealPoint == lastSplit + target
           bestSilence == findBestSilence(silences, idealPoint, target \div 3)
           splitPoint == SilenceMiddle(silences[bestSilence])
       IN  IF bestSilence # 0
           THEN IF splitPoint > lastSplit + TicksPerSecond
                THEN splitLoop(silences, totalDuration, target, splitPoint,
                               Append(splitPoints, splitPoint))
                ELSE splitLoop(silences, totalDuration, target, idealPoint,
                               IF idealPoint < totalDuration
                               THEN Append(splitPoints, idealPoint)
                               ELSE splitPoints)
           ELSE splitLoop(silences, totalDuration, target, idealPoint,
                          IF idealPoint < totalDuration - TicksPerSecond
                          THEN Append(splitPoints, idealPoint)
                          ELSE splitPoints)

\* a calculateSplitPoints that ignores the silences
calculateSplitPointsFixed(silences, totalDuration, target) ==
  fixedSplitPoints(totalDuration, target)

\* a calculateSplitPoints that cuts at every multiple of the target up to
\* the end of the recording, the end included
calculateSplitPointsUpToEnd(silences, totalDuration, target) ==
  [k \in 1..(totalDuration \div target) |-> k * target]

\* calculateSplitPoints (target in ticks)
calculateSplitPoints(silences, totalDuration, target) ==
  IF Len(silences) = 0
  THEN fixedSplitPoints(totalDuration, target)
  ELSE splitLoop(silences, totalDuration, target, 0, << >>)

\* extractChunks: the spans between the split points, and the last one
SegmentsOf(splitPoints, totalDuration) ==
  [k \in 1..(Len(splitPoints) + 1) |->
     [start |-> IF k = 1 THEN 0 ELSE splitPoints[k - 1],
      end   |-> IF k > Len(splitPoints) THEN totalDuration ELSE splitPoints[k]]]

\* a Split that cuts every recording
SplitAlwaysCuts(in) ==
  LET target == in.targetSec * TicksPerSecond
      points == calculateSplitPoints(in.silences, in.duration, target \div 2)
  IN  [NoSplit.result EXCEPT !.detected = TRUE, !.points = points,
                             !.segments = SegmentsOf(points, in.duration)]

\* FFmpegSplitter.Split: what it returns for input in
SplitResult(in) ==
  LET target == in.targetSec * TicksPerSecond
      points == calculateSplitPoints(in.silences, in.duration, target)
  IN  IF ~in.exists
      THEN [NoSplit.result EXCEPT !.err = ErrInputNotFound]
      ELSE IF in.duration <= target
      THEN [NoSplit.result EXCEPT
              !.copied = TRUE,
              !.segments = <<[start |-> 0, end |-> in.duration]>>]
      ELSE [NoSplit.result EXCEPT
              !.detected = TRUE,
              !.points = points,
              !.segments = SegmentsOf(points, in.duration)]

\* the silence intervals silencedetect can report within d ticks
Intervals(d) ==
  {[start |-> a, end |-> a + l] : a \in 0..d, l \in SilenceLengths} \cap
  [start : 0..d, end : 0..d]

\* silence lists of length n: in time order, apart from each other
RECURSIVE SilenceListsOfLen(_, _)
SilenceListsOfLen(d, n) ==
  IF n = 0 THEN {<< >>}
  ELSE {Append(sl, iv) : sl \in SilenceListsOfLen(d, n - 1),
                         iv \in Intervals(d)} \cap
       {sl \in Seq(Intervals(d)) :
          \A i \in 1..(Len(sl) - 1) : sl[i].end < sl[i + 1].start}

SilenceLists(d) == UNION {SilenceListsOfLen(d, n) : n \in 0..MaxSilences}

\* a recording of d ticks in which the silences sl are detected, to be split
\* with a target of t seconds
SplitInput(d, t, sl) ==
  [exists |-> TRUE, duration |-> d, targetSec |-> t, silences |-> sl]

\* ------------------------------------------------------ the poll loop
\* largest number of ticks of one poll loop the model follows (SpecPoll)
MaxTicks == 3

\* no poll loop has been entered: seen is what gen.Poll answered at each tick,
\* ok and err are what the loop returned
NoPoll == [pc |-> "idle", attempt |-> 0, seen |-> << >>, cancelled |-> FALSE,
           ok |-> FALSE, err |-> << >>]

\* --------------------------------------------- provider requests with retry
\* largest maxRetries a client is built with in the model (SpecRetry)
MaxRetries == 2

\* the values of baseBackoff, in units of time
BackoffArgs == {1, 3}

\* what one doRequest can meet
RequestOutcomes ==
  {"ok", "transport error", "5xx", "429", "4xx", "unmarshal error"}

ErrMaxRetriesExceeded == "runpod: max retries exceeded"
ErrRetryCancelled     == "runpod: context cancelled"
ErrRequestFailed      == "runpod: request failed"
ErrUnmarshal          == "runpod: unmarshal response"

\* no request has been made: tried is what each doRequest met, waits is how
\* long each time.After waited, err is what the call returned ("" for nil)
NoRequest == [pc |-> "idle", maxRetries |-> 0, baseBackoff |-> 0,
              attempt |-> 0, backoff |-> 0, tried |-> << >>, waits |-> << >>,
              cancelled |-> FALSE, lastErr |-> "", err |-> ""]

\* an isRetryable that retries every failure
isRetryableAny(outcome) == outcome # "ok"

\* an isRetryable that also retries a 4xx response
isRetryableClientError(outcome) ==
  outcome \in {"transport error", "5xx", "429", "4xx"}

\* isRetryable: doRequest wraps transport errors, 5xx and 429 in retryableError
isRetryable(outcome) == outcome \in {"transport error", "5xx", "429"}

\* ------------------------------------- the cut-point loops, step by step
\* the longest recording, in ticks, whose cut-point computation is followed
\* step by step, and the largest number of loop iterations followed
MaxLoopDuration == 16
MaxIterations == 4

\* ChunkTargetSec values Split is called with: the option is an int that
\* nothing validates
LoopTargetArgs == {-1, 0, 1, 2}

\* no computation has been started: t is the loop variable (t in
\* fixedSplitPoints, lastSplit in calculateSplitPoints), iter counts the
\* iterations made
NoCuts == [pc |-> "idle", silences |-> << >>, totalDuration |-> 0,
           targetSec |-> 1, t |-> 0, splitPoints |-> << >>, iter |-> 0]

\* ---------------------------------- extractChunks, one ffmpeg run a step
\* largest number of segments extractChunks is called with
MaxSegments == 5

\* how one ffmpeg extraction followed by validateWAVChunk can end
ExtractOutcomes == {"valid", "invalid", "ffmpeg error"}

\* no call has been made: chunks is extractChunks' local list, disk the
\* segment files in the output directory, k the position of the cleanup loop
NoExtract == [pc |-> "idle", segments |-> 0, i |-> 0, chunks |-> << >>,
              disk |-> {}, k |-> 0, err |-> "", returned |-> << >>]

\* ------------------------------------------- the providers' poll answers
\* largest number of polls made through one adapter in the model
MaxAdapterPolls == 2

\* the statuses the RunPod and the Beam client packages declare
RunPodStatuses ==
  {"IN_QUEUE", "RUNNING", "IN_PROGRESS", "COMPLETED", "FAILED", "CANCELLED",
   "TIMED_OUT"}
BeamStatuses ==
  {"PENDING", "RUNNING", "COMPLETED", "COMPLETE", "FAILED", "ERROR", "CANCELED"}

\* what a client can hand to its adapter: Status is a string type, and both
\* clients pass a status they do not know through unchanged
StatusArgs == RunPodStatuses \cup BeamStatuses \cup {"UNKNOWN"}

\* runpod.Status.IsTerminal
runpodIsTerminal(s) == s \in {"COMPLETED", "FAILED", "CANCELLED", "TIMED_OUT"}

\* beam.Status.IsTerminal
beamIsTerminal(s) == s \in {"COMPLETED", "COMPLETE", "FAILED", "ERROR", "CANCELED"}

\* generator.Status.IsTerminal
generatorIsTerminal(s) ==
  s \in {StatusCompleted, StatusFailed, StatusCancelled, StatusTimedOut}

\* RunPodAdapter.Poll: the switch on the RunPod status
RunPodAdapterPoll(s) ==
  CASE s = "IN_QUEUE" -> StatusInQueue
    [] s \in {"RUNNING", "IN_PROGRESS"} -> StatusRunning
    [] s = "COMPLETED" -> StatusCompleted
    [] s = "FAILED" -> StatusFailed
    [] s = "CANCELLED" -> StatusCancelled
    [] s = "TIMED_OUT" -> StatusTimedOut
    [] OTHER -> s

\* a Beam adapter that does not know the status ERROR
BeamAdapterPollNoError(s) ==
  CASE s = "PENDING" -> "PENDING"
    [] s = "RUNNING" -> StatusRunning
    [] s \in {"COMPLETED", "COMPLETE"} -> StatusCompleted
    [] s = "FAILED" -> StatusFailed
    [] s = "CANCELED" -> StatusCancelled
    [] OTHER -> s

\* BeamAdapter.Poll: the switch on the Beam status
BeamAdapterPoll(s) ==
  CASE s = "PENDING" -> "PENDING"
    [] s = "RUNNING" -> StatusRunning
    [] s \in {"COMPLETED", "COMPLETE"} -> StatusCompleted
    [] s \in {"FAILED", "ERROR"} -> StatusFailed
    [] s = "CANCELED" -> StatusCancelled
    [] OTHER -> s

\* no poll has been made through an adapter
NoAdapter == [pc |-> "idle", provider |-> "", said |-> << >>, got |-> << >>]

\* the default concurrency of a new service
DefaultConcurrency == 3

InitSide ==
  /\ mem = NoMem
  /\ files = NoFiles
  /\ maxConcurrentChunks = DefaultConcurrency
  /\ splitter = NoSplit
  /\ poller = NoPoll
  /\ request = NoRequest
  /\ cuts = NoCuts
  /\ extractor = NoExtract
  /\ adapter = NoAdapter

\* a Clone that copies the struct and shares the Chunks slice
CloneObjectShallow(m, a) ==
  [m EXCEPT !.objs = Append(@, m.objs[a])]

\* Job.Clone on the object at address a: a new slice is made and the chunks
\* are copied into it, then a new Job is built from the fields; the clone is
\* the last object of the result
CloneObject(m, a) ==
  LET o == m.objs[a]
      chunks == IF o.chunks = 0 THEN << >> ELSE m.arrs[o.chunks]
  IN  [m EXCEPT !.arrs = Append(@, chunks),
                !.objs = Append(@, [o EXCEPT !.chunks = Len(m.arrs) + 1])]

\* the field values of the object at address a
JobAt(m, a) ==
  [status |-> m.objs[a].status, progress |-> m.objs[a].progress,
   chunks |-> IF m.objs[a].chunks = 0 THEN << >> ELSE m.arrs[m.objs[a].chunks]]

\* what FindByID returns
Found(m) == IF m.stored = 0 THEN {} ELSE {JobAt(m, m.stored)}


\* ---------------------------------------------------------------- actions
Providers == {ProviderRunPod, ProviderBeam}
Inputs == [dryRun : BOOLEAN, pushToS3 : BOOLEAN]

Active(r) == run[r].pc \notin {"idle", "done"}

\* CreateJob: a new IN_QUEUE job is saved; no work is started
CreateJob ==
  /\ repo = {}
  /\ \E p \in Providers, push \in BOOLEAN : repo' = {Clone(NewJob(p, push))}
  /\ UNCHANGED <<run, beamEnabled, del, scope, jb, lastOp, sideVars>>

\* Process: CreateJob, then processJob on the job just created
Process(r) ==
  /\ repo = {}
  /\ run[r].pc = "idle"
  /\ \E p \in Providers, in \in Inputs :
       /\ repo' = {Clone(NewJob(p, in.pushToS3))}
       /\ run' = [run EXCEPT ![r] = [@ EXCEPT !.pc = "start",
                                               !.job = NewJob(p, in.pushToS3),
                                               !.input = in]]
  /\ UNCHANGED <<beamEnabled, del, scope, jb, lastOp, sideVars>>

\* ProcessExistingJob: FindByID hands the run its own copy of the job
ProcessExistingJob(r) ==
  /\ repo # {}
  /\ run[r].pc = "idle"
  /\ \E in \in Inputs :
       run' = [run EXCEPT ![r] = [@ EXCEPT !.pc = "start",
                                           !.job = Clone(TheJob),
                                           !.input = in]]
  /\ UNCHANGED <<repo, beamEnabled, del, scope, jb, lastOp, sideVars>>

\* processJob up to the first Save: getGenerator, Start, Save
StartJob(r) ==
  /\ run[r].pc = "start"
  /\ LET rr == run[r]
         g  == getGenerator(rr.job.provider)
         st == Start(rr.job)
         new ==
           IF g # NoError
           THEN [failJob(rr, g) EXCEPT !.pc = "done"]
           ELSE IF st.err # NoError
           THEN failJob(rr, <<"failed to start job">> \o st.err)
           ELSE [rr EXCEPT !.job = st.job, !.pc = "saveImage"]
     IN  /\ run' = [run EXCEPT ![r] = new]
         /\ repo' = {Clone(new.job)}
  /\ UNCHANGED <<beamEnabled, del, scope, jb, lastOp, sideVars>>

\* steps 1 and 2: decode and stage the image, then the audio
SaveInput(r, at, path, next, what) ==
  /\ run[r].pc = at
  /\ \E res \in {"ok", "decode base64", "save to temp"} :
       /\ res # "ok" => scope.localFaults
       /\ LET rr == run[r]
              new ==
                IF res = "ok"
                THEN [rr EXCEPT !.tempFiles = @ \cup {path},
                                !.created = @ \cup {path},
                                !.pc = next]
                ELSE failJob(rr, <<what, res>>)
          IN  /\ run' = [run EXCEPT ![r] = new]
              /\ repo' = IF res = "ok" THEN repo ELSE {Clone(new.job)}
  /\ UNCHANGED <<beamEnabled, del, scope, jb, lastOp, sideVars>>

SaveImage(r) == SaveInput(r, "saveImage", ImagePath, "saveAudio", "failed to save image")
SaveAudio(r) == SaveInput(r, "saveAudio", AudioPath, "resize", "failed to save audio")

\* step 3: ResizeImageWithPadding, then fileToBase64 of the result
Resize(r) ==
  /\ run[r].pc = "resize"
  /\ \E res \in {"ok", "resize", "encode"} :
       /\ res # "ok" => scope.localFaults
       /\ LET rr == run[r]
              new ==
                CASE res = "ok" ->
                       [rr EXCEPT !.tempFiles = @ \cup {ResizedPath},
                                  !.created = @ \cup {ResizedPath},
                                  !.pc = "split"]
                  [] res = "resize" ->
                       failJob(rr, <<"failed to resize image", "ffmpeg">>)
                  [] res = "encode" ->
                       failJob([rr EXCEPT !.tempFiles = @ \cup {ResizedPath},
                                          !.created = @ \cup {ResizedPath}],
                               <<"failed to encode resized image", "read file">>)
          IN  /\ run' = [run EXCEPT ![r] = new]
              /\ repo' = IF res = "ok" THEN repo ELSE {Clone(new.job)}
  /\ UNCHANGED <<beamEnabled, del, scope, jb, lastOp, sideVars>>

\* step 4: Split; on success the chunks are set (all PENDING) and saved
Split(r) ==
  /\ run[r].pc = "split"
  /\ \E ok \in BOOLEAN, n \in scope.segments :
       /\ ~ok => scope.localFaults
       /\ LET rr == run[r]
              audioChunks == [k \in 0..(n - 1) |-> SegPath(k)]
              segs == {audioChunks[k] : k \in DOMAIN audioChunks}
              new ==
                IF ~ok
                THEN failJob(rr, <<"failed to split audio", "ffmpeg">>)
                ELSE [rr EXCEPT !.audioChunks = audioChunks,
                                !.tempFiles = @ \cup segs,
                                !.created = @ \cup segs,
                                !.job = SetChunks(@,
                                          [k \in DOMAIN audioChunks |->
                                             [NewChunk(k) EXCEPT
                                                !.inputPath = audioChunks[k]]]),
                                !.i = 0,
                                !.pc = IF rr.input.dryRun THEN "dryRun" ELSE "chunk"]
          IN  /\ run' = [run EXCEPT ![r] = new]
              /\ repo' = {Clone(new.job)}
  /\ UNCHANGED <<beamEnabled, del, scope, jb, lastOp, sideVars>>

\* a dry run that returns without completing the job
DryRunUnfinished(r) ==
  /\ run[r].pc = "dryRun"
  /\ run' = [run EXCEPT ![r] = [@ EXCEPT !.outcome = [NoOutcome EXCEPT
                                                        !.status = run[r].job.status],
                                         !.pc = "cleanup"]]
  /\ UNCHANGED <<repo, beamEnabled, del, scope, jb, lastOp, sideVars>>

\* step 5, dry run: UpdateProgress(100), Complete, Save
DryRun(r) ==
  /\ run[r].pc = "dryRun"
  /\ LET rr == run[r]
         c == Complete(UpdateProgress(rr.job, 100))
         new == IF c.err # NoError
                THEN [rr EXCEPT !.job = c.job, !.pc = "cleanup"]
                ELSE [rr EXCEPT !.job = c.job,
                                !.outcome = [NoOutcome EXCEPT !.status = c.job.status],
                                !.pc = "cleanup"]
     IN  /\ run' = [run EXCEPT ![r] = new]
         /\ repo' = Saved(repo, new)
  /\ UNCHANGED <<beamEnabled, del, scope, jb, lastOp, sideVars>>

\* top of the chunk loop: the cancellation check, then the chunk is marked
\* PROCESSING and its audio is read
ChunkBegin(r) ==
  /\ run[r].pc = "chunk"
  /\ LET rr == run[r] IN
       IF rr.cancelled
       THEN LET new == failJob([rr EXCEPT !.observed = TRUE, !.failedAt = rr.i],
                               ErrContextCancelled)
            IN  /\ run' = [run EXCEPT ![r] = new]
                /\ repo' = {Clone(new.job)}
       ELSE \E ok \in BOOLEAN :
              /\ ~ok => scope.localFaults
              /\ LET p == [rr EXCEPT !.job = updateChunkStatus(@, rr.i,
                                                ChunkStatusProcessing, NoError)]
                     new == IF ok THEN [p EXCEPT !.pc = "submit"]
                            ELSE failChunk(p, "failed to encode audio", <<"read file">>)
                 IN  /\ run' = [run EXCEPT ![r] = new]
                     /\ repo' = IF ok THEN repo ELSE {Clone(new.job)}
  /\ UNCHANGED <<beamEnabled, del, scope, jb, lastOp, sideVars>>

\* gen.Submit for the current chunk
Submit(r) ==
  /\ run[r].pc = "submit"
  /\ \E ok \in BOOLEAN :
       /\ ~ok => scope.providerFaults
       /\ LET rr == [run[r] EXCEPT !.submitted = @ \cup {run[r].i},
                                   !.submitCalls = @ + 1]
              new == IF ok
                     THEN [rr EXCEPT !.job.chunks[rr.i].submitted = TRUE,
                                     !.pollCount = 0, !.pc = "poll"]
                     ELSE failChunk(rr, "failed to submit to provider", <<"submit">>)
          IN  /\ run' = [run EXCEPT ![r] = new]
              /\ repo' = IF ok THEN repo ELSE {Clone(new.job)}
  /\ UNCHANGED <<beamEnabled, del, scope, jb, lastOp, sideVars>>

\* a poll loop that notes the cancellation and keeps polling
PollCancelledKeepsPolling(r) ==
  /\ run[r].pc = "poll"
  /\ run[r].cancelled
  /\ ~run[r].observed
  /\ run' = [run EXCEPT ![r].observed = TRUE]
  /\ UNCHANGED <<repo, beamEnabled, del, scope, jb, lastOp, sideVars>>

\* the poll loop's select takes the ctx.Done branch
PollCancelled(r) ==
  /\ run[r].pc = "poll"
  /\ run[r].cancelled
  /\ LET new == failChunk([run[r] EXCEPT !.observed = TRUE],
                          "failed to poll provider", ErrContextCancelled)
     IN  /\ run' = [run EXCEPT ![r] = new]
         /\ repo' = {Clone(new.job)}
  /\ UNCHANGED <<beamEnabled, del, scope, jb, lastOp, sideVars>>

\* what gen.Poll can return: a transport error, or a status
PollResults ==
  {"transport error", "PENDING", "IN_QUEUE", "RUNNING", "UNKNOWN",
   "COMPLETED", "FAILED", "FAILED: msg", "CANCELLED", "TIMED_OUT"}

PollContinues == {"transport error", "PENDING", "IN_QUEUE", "RUNNING", "UNKNOWN"}

\* a poll loop that reports a cancelled provider job as a failed one
PollErrorSameKind(res) ==
  CASE res = "FAILED"      -> ErrProviderJobFailed
    [] res = "FAILED: msg" -> ErrProviderJobFailed \o <<"msg">>
    [] res = "CANCELLED"   -> ErrProviderJobFailed
    [] res = "TIMED_OUT"   -> ErrProviderJobTimedOut
    [] OTHER               -> NoError

\* the error the poll loop returns for a terminal status
PollError(res) ==
  CASE res = "FAILED"      -> ErrProviderJobFailed
    [] res = "FAILED: msg" -> ErrProviderJobFailed \o <<"msg">>
    [] res = "CANCELLED"   -> ErrProviderJobCancelled
    [] res = "TIMED_OUT"   -> ErrProviderJobTimedOut
    [] OTHER               -> NoError

\* the poll loop's select takes the ticker branch: one gen.Poll
PollTick(r) ==
  /\ run[r].pc = "poll"
  /\ run[r].pollCount < MaxPolls
  /\ \E res \in PollResults :
       /\ res \in PollContinues => run[r].pollCount + 1 < MaxPolls
       /\ PollError(res) # NoError => scope.providerFaults
       /\ LET rr == [run[r] EXCEPT !.polled = @ \cup {run[r].i},
                                   !.pollCount = @ + 1]
              new ==
                CASE res \in PollContinues -> rr
                  [] res = "COMPLETED"     -> [rr EXCEPT !.pc = "materialize"]
                  [] OTHER -> failChunk(rr, "failed to poll provider", PollError(res))
          IN  /\ run' = [run EXCEPT ![r] = new]
              /\ repo' = IF new.pc = "cleanup" THEN {Clone(new.job)} ELSE repo
  /\ UNCHANGED <<beamEnabled, del, scope, jb, lastOp, sideVars>>


\* how the output of a COMPLETED poll result is made a local file
Materializations ==
  {"inline ok", "decode error", "save error", "url ok", "download error", "none"}

\* a chunkDone that goes on with the chunk after the next one
chunkDoneSkipsNext(rr) ==
  LET n  == NumChunks(rr.job)
      j1 == [rr.job EXCEPT !.chunks[rr.i].status = ChunkStatusCompleted,
                           !.chunks[rr.i].hasOutput = TRUE,
                           !.chunks[rr.i].outputPath = VideoPath(rr.i)]
      j2 == UpdateProgress(j1, ChunkProgress(rr.i, n))
      vp == Append(rr.videoPaths, VideoPath(rr.i))
      last == rr.i + 1 >= n
  IN  [rr EXCEPT !.job = j2,
                 !.videoPaths = vp,
                 !.created = @ \cup {VideoPath(rr.i)},
                 !.tempFiles = IF last THEN @ \cup {vp[k] : k \in 1..Len(vp)} ELSE @,
                 !.i = IF rr.i + 2 < n THEN rr.i + 2 ELSE rr.i + 1,
                 !.pc = IF last THEN "join" ELSE "chunk"]

\* a chunkDone that leaves the chunk PROCESSING
chunkDoneStillProcessing(rr) ==
  LET n  == NumChunks(rr.job)
      j2 == UpdateProgress(rr.job, ChunkProgress(rr.i, n))
      vp == Append(rr.videoPaths, VideoPath(rr.i))
      last == rr.i + 1 >= n
  IN  [rr EXCEPT !.job = j2,
                 !.videoPaths = vp,
                 !.created = @ \cup {VideoPath(rr.i)},
                 !.tempFiles = IF last THEN @ \cup {vp[k] : k \in 1..Len(vp)} ELSE @,
                 !.i = @ + 1,
                 !.pc = IF last THEN "join" ELSE "chunk"]

\* a chunkDone that marks the chunk COMPLETED without recording its file
chunkDoneNoPath(rr) ==
  LET n  == NumChunks(rr.job)
      j1 == [rr.job EXCEPT !.chunks[rr.i].status = ChunkStatusCompleted,
                           !.chunks[rr.i].hasOutput = TRUE]
      j2 == UpdateProgress(j1, ChunkProgress(rr.i, n))
      vp == Append(rr.videoPaths, VideoPath(rr.i))
      last == rr.i + 1 >= n
  IN  [rr EXCEPT !.job = j2,
                 !.videoPaths = vp,
                 !.created = @ \cup {VideoPath(rr.i)},
                 !.tempFiles = IF last THEN @ \cup {vp[k] : k \in 1..Len(vp)} ELSE @,
                 !.i = @ + 1,
                 !.pc = IF last THEN "join" ELSE "chunk"]

\* after chunk i is done: progress is updated and saved, the loop goes on
\* or returns the video paths, which processJob adds to tempFiles
chunkDone(rr) ==
  LET n  == NumChunks(rr.job)
      j1 == [rr.job EXCEPT !.chunks[rr.i].status = ChunkStatusCompleted,
                           !.chunks[rr.i].hasOutput = TRUE,
                           !.chunks[rr.i].outputPath = VideoPath(rr.i)]
      j2 == UpdateProgress(j1, ChunkProgress(rr.i, n))
      vp == Append(rr.videoPaths, VideoPath(rr.i))
      last == rr.i + 1 >= n
  IN  [rr EXCEPT !.job = j2,
                 !.videoPaths = vp,
                 !.created = @ \cup {VideoPath(rr.i)},
                 !.tempFiles = IF last THEN @ \cup {vp[k] : k \in 1..Len(vp)} ELSE @,
                 !.i = @ + 1,
                 !.pc = IF last THEN "join" ELSE "chunk"]

\* the end of processChunkWithGenerator: decode-and-save or download
Materialize(r) ==
  /\ run[r].pc = "materialize"
  /\ \E m \in Materializations :
       /\ m \in {"decode error", "save error", "download error"} => scope.localFaults
       /\ m = "none" => scope.providerFaults
       /\ LET rr == run[r]
              new ==
                CASE m \in {"inline ok", "url ok"} -> chunkDone(rr)
                  [] m = "decode error" ->
                       failChunk(rr, "failed to decode video", <<"illegal base64">>)
                  [] m = "save error" ->
                       failChunk(rr, "failed to save video", <<"save to temp">>)
                  [] m = "download error" ->
                       failChunk(rr, "failed to download video", <<"download">>)
                  [] OTHER ->
                       \* ErrNoVideoOutput is returned unwrapped
                       failJob([rr EXCEPT
                                  !.job = updateChunkStatus(@, rr.i,
                                            ChunkStatusFailed, ErrNoVideoOutput),
                                  !.failedAt = rr.i],
                               <<ChunkFailed(rr.i)>> \o ErrNoVideoOutput)
          IN  /\ run' = [run EXCEPT ![r] = new]
              /\ repo' = {Clone(new.job)}
  /\ UNCHANGED <<beamEnabled, del, scope, jb, lastOp, sideVars>>

\* a join that is handed the last chunk's video first
JoinLastFirst(r) ==
  /\ run[r].pc = "join"
  /\ \E ok \in BOOLEAN :
       /\ ~ok => scope.localFaults
       /\ LET vp == run[r].videoPaths
              rr == [run[r] EXCEPT !.joinCalls = @ + 1,
                       !.joined = <<vp[Len(vp)]>> \o SubSeq(vp, 1, Len(vp) - 1)]
              new == IF ~ok THEN failJob(rr, <<"failed to join videos", "ffmpeg">>)
                     ELSE IF rr.input.pushToS3 THEN [rr EXCEPT !.pc = "upload"]
                     ELSE completeJob(rr, "")
          IN  /\ run' = [run EXCEPT ![r] = new]
              /\ repo' = IF new.pc = "upload" THEN repo ELSE Saved(repo, new)
  /\ UNCHANGED <<beamEnabled, del, scope, jb, lastOp, sideVars>>

\* step 6: JoinVideos; without remote delivery the job is completed at once
Join(r) ==
  /\ run[r].pc = "join"
  /\ \E ok \in BOOLEAN :
       /\ ~ok => scope.localFaults
       /\ LET rr == [run[r] EXCEPT !.joinCalls = @ + 1,
                                    !.joined = run[r].videoPaths]
              new == IF ~ok THEN failJob(rr, <<"failed to join videos", "ffmpeg">>)
                     ELSE IF rr.input.pushToS3 THEN [rr EXCEPT !.pc = "upload"]
                     ELSE completeJob(rr, "")
          IN  /\ run' = [run EXCEPT ![r] = new]
              /\ repo' = IF new.pc = "upload" THEN repo ELSE Saved(repo, new)
  /\ UNCHANGED <<beamEnabled, del, scope, jb, lastOp, sideVars>>

\* step 7: open the joined video and upload it; then the job is completed
Upload(r) ==
  /\ run[r].pc = "upload"
  /\ \E res \in {"ok", "failed to open output video", "failed to upload to S3"},
        url \in UploadURLs :
       /\ res # "ok" => (scope.localFaults /\ url = DefaultURL)
       /\ LET rr == run[r]
              new == IF res # "ok" THEN failJob(rr, <<res, "io">>)
                     ELSE completeJob([rr EXCEPT !.tempFiles = @ \cup {OutputPath},
                                                 !.uploadURL = url],
                                      url)
          IN  /\ run' = [run EXCEPT ![r] = new]
              /\ repo' = Saved(repo, new)
  /\ UNCHANGED <<beamEnabled, del, scope, jb, lastOp, sideVars>>

\* a cleanup whose failure becomes the job's failure
CleanupFailsJob(r) ==
  /\ run[r].pc = "cleanup"
  /\ \E ok \in BOOLEAN :
       /\ ~ok => (scope.localFaults /\ run[r].tempFiles # {})
       /\ LET rr == [run[r] EXCEPT !.cleaned = run[r].tempFiles,
                                    !.cleanupErr = ~ok]
              new == IF ok THEN [rr EXCEPT !.pc = "done"]
                     ELSE [failJob(rr, <<"failed to cleanup temp files">>)
                             EXCEPT !.pc = "done"]
          IN  /\ run' = [run EXCEPT ![r] = new]
              /\ repo' = IF ok THEN repo ELSE {Clone(new.job)}
  /\ UNCHANGED <<beamEnabled, del, scope, jb, lastOp, sideVars>>

\* the deferred cleanup: CleanupTemp on the tracked files, if there are any
Cleanup(r) ==
  /\ run[r].pc = "cleanup"
  /\ \E ok \in BOOLEAN :
       /\ ~ok => (scope.localFaults /\ run[r].tempFiles # {})
       /\ run' = [run EXCEPT ![r] = [@ EXCEPT !.cleaned = run[r].tempFiles,
                                              !.cleanupErr = ~ok,
                                              !.pc = "done"]]
  /\ UNCHANGED <<repo, beamEnabled, del, scope, jb, lastOp, sideVars>>

\* the caller cancels the context of a run
Cancel(r) ==
  /\ Active(r)
  /\ ~run[r].cancelled
  /\ run' = [run EXCEPT ![r].cancelled = TRUE]
  /\ UNCHANGED <<repo, beamEnabled, del, scope, jb, lastOp, sideVars>>

\* DeleteJobVideo, first half: FindByID; an unknown id ends the call
DeleteFind ==
  /\ del.pc = "idle"
  /\ del.count < scope.deletes
  /\ IF repo = {}
     THEN del' = [del EXCEPT !.result = ErrJobNotFound, !.rm = "",
                             !.count = @ + 1]
     ELSE del' = [del EXCEPT !.pc = "found", !.job = Clone(TheJob),
                             !.result = "", !.rm = "", !.count = @ + 1]
  /\ UNCHANGED <<repo, run, beamEnabled, scope, jb, lastOp, sideVars>>

\* a DeleteJobVideo that leaves the output fields as they are
DeleteSaveKeepsOutput ==
  /\ del.pc = "found"
  /\ del' = [del EXCEPT !.pc = "idle", !.result = "ok", !.rm = "removed",
                         !.prev = {del.job}]
  /\ repo' = {Clone(del.job)}
  /\ UNCHANGED <<run, beamEnabled, scope, jb, lastOp, sideVars>>

\* DeleteJobVideo, second half: os.Remove, ClearOutput, Save
DeleteSave ==
  /\ del.pc = "found"
  /\ \E rm \in {"removed", "missing", "error"} :
       IF del.job.outputVideoPath # "" /\ rm = "error"
       THEN /\ del' = [del EXCEPT !.pc = "idle", !.rm = rm,
                                  !.result = "delete video file"]
            /\ repo' = repo
       ELSE /\ del' = [del EXCEPT !.pc = "idle", !.result = "ok",
                                  !.rm = IF del.job.outputVideoPath # ""
                                         THEN rm ELSE "",
                                  !.job = ClearOutput(del.job),
                                  !.prev = {ClearOutput(del.job)}]
            /\ repo' = {Clone(ClearOutput(del.job))}
  /\ UNCHANGED <<run, beamEnabled, scope, jb, lastOp, sideVars>>

\* rm: what os.Remove met in the last call ("" when it was not called);
\* prev: the job the last successful call saved
NoDelete == [pc |-> "idle", job |-> NewJob(ProviderRunPod, FALSE),
             count |-> 0, result |-> "", rm |-> "", prev |-> {}]

Init ==
  /\ repo = {}
  /\ run = [r \in Runs |-> IdleRun]
  /\ beamEnabled \in BOOLEAN
  /\ del = NoDelete
  /\ scope = [localFaults |-> TRUE, providerFaults |-> TRUE,
              segments |-> 1..MaxChunks, deletes |-> MaxDeletes]
  /\ jb = NewJob(ProviderRunPod, FALSE)
  /\ lastOp = NoOp
  /\ InitSide

\* ProcessExistingJob / Process returns: the locals of the call are gone
Return(r) ==
  /\ run[r].pc = "done"
  /\ run' = [run EXCEPT ![r] = IdleRun]
  /\ UNCHANGED <<repo, beamEnabled, del, scope, jb, lastOp, sideVars>>

\* one step of processing run r
RunStep(r) ==
  \/ Process(r)
  \/ ProcessExistingJob(r)
  \/ StartJob(r)
  \/ SaveImage(r)
  \/ SaveAudio(r)
  \/ Resize(r)
  \/ Split(r)
  \/ DryRun(r)
  \/ ChunkBegin(r)
  \/ Submit(r)
  \/ PollTick(r)
  \/ Materialize(r)
  \/ Join(r)
  \/ Upload(r)
  \/ Cleanup(r)

\* the service with one processing run at a time: calls on the one job id
\* follow each other, DeleteJobVideo may interleave with a run
Next ==
  \/ CreateJob
  \/ DeleteFind
  \/ DeleteSave
  \/ RunStep("r1")
  \/ Cancel("r1")
  \/ PollCancelled("r1")
  \/ Return("r1")

Spec == Init /\ [][Next]_vars

\* the service with two ProcessExistingJob / Process calls that may overlap;
\* here only the provider's answers vary: the local steps succeed and no
\* context is cancelled
InitConc ==
  /\ repo = {}
  /\ run = [r \in Runs |-> IdleRun]
  /\ beamEnabled \in BOOLEAN
  /\ del = NoDelete
  /\ scope = [localFaults |-> FALSE, providerFaults |-> TRUE,
              segments |-> 1..MaxChunksConc, deletes |-> 0]
  /\ jb = NewJob(ProviderRunPod, FALSE)
  /\ lastOp = NoOp
  /\ InitSide

NextConc ==
  \/ CreateJob
  \/ \E r \in Runs : RunStep(r)

SpecConc == InitConc /\ [][NextConc]_vars


\* the service with repeated DeleteJobVideo calls on the one job id, before,
\* during and after a processing run; the local steps succeed
InitDelete ==
  /\ repo = {}
  /\ run = [r \in Runs |-> IdleRun]
  /\ beamEnabled \in BOOLEAN
  /\ del = NoDelete
  /\ scope = [localFaults |-> FALSE, providerFaults |-> TRUE,
              segments |-> 1..MaxChunksConc, deletes |-> MaxDeletesSeq]
  /\ jb = NewJob(ProviderRunPod, FALSE)
  /\ lastOp = NoOp
  /\ InitSide

NextDelete ==
  \/ CreateJob
  \/ DeleteFind
  \/ DeleteSave
  \/ RunStep("r1")
  \/ Return("r1")

SpecDelete == InitDelete /\ [][NextDelete]_vars


\* ------------------------------------------- the Job object on its own
\* arguments the methods are called with
ProgressArgs == {-5, 45, 150}
ErrorArgs == {<<"e1">>, <<"e2">>}
PathArgs == {"", OutputPath}
URLArgs == {"", "https://s3/videos/job.mp4"}

JobTransitionTo ==
  /\ \E t \in Statuses :
       LET res == TransitionTo(jb, t)
       IN  /\ jb' = res.job
           /\ lastOp' = [op |-> "TransitionTo", from |-> jb.status,
                         to |-> t, err |-> res.err]
  /\ UNCHANGED <<repo, run, beamEnabled, del, scope, sideVars>>

JobFail ==
  /\ \E msg \in ErrorArgs :
       LET res == Fail(jb, msg)
       IN  /\ jb' = res.job
           /\ lastOp' = [op |-> "Fail", from |-> jb.status,
                         to |-> StatusFailed, err |-> res.err]
  /\ UNCHANGED <<repo, run, beamEnabled, del, scope, sideVars>>

JobUpdateProgress ==
  /\ \E p \in ProgressArgs : jb' = UpdateProgress(jb, p)
  /\ lastOp' = [NoOp EXCEPT !.op = "UpdateProgress", !.from = jb.status]
  /\ UNCHANGED <<repo, run, beamEnabled, del, scope, sideVars>>

JobSetChunks ==
  /\ \E n \in 0..MaxChunks :
       jb' = SetChunks(jb, [k \in 0..(n - 1) |-> NewChunk(k)])
  /\ lastOp' = [NoOp EXCEPT !.op = "SetChunks", !.from = jb.status]
  /\ UNCHANGED <<repo, run, beamEnabled, del, scope, sideVars>>

JobUpdateChunk ==
  /\ \E index \in -1..MaxChunks :
       jb' = UpdateChunk(jb, index,
                         [NewChunk(index) EXCEPT !.status = ChunkStatusCompleted,
                                                 !.hasOutput = TRUE])
  /\ lastOp' = [NoOp EXCEPT !.op = "UpdateChunk", !.from = jb.status]
  /\ UNCHANGED <<repo, run, beamEnabled, del, scope, sideVars>>

JobSetOutput ==
  /\ \E path \in PathArgs, url \in URLArgs : jb' = SetOutput(jb, path, url)
  /\ lastOp' = [NoOp EXCEPT !.op = "SetOutput", !.from = jb.status]
  /\ UNCHANGED <<repo, run, beamEnabled, del, scope, sideVars>>

JobClearOutput ==
  /\ jb' = ClearOutput(jb)
  /\ lastOp' = [NoOp EXCEPT !.op = "ClearOutput", !.from = jb.status]
  /\ UNCHANGED <<repo, run, beamEnabled, del, scope, sideVars>>

NextJob ==
  \/ JobTransitionTo
  \/ JobFail
  \/ JobUpdateProgress
  \/ JobSetChunks
  \/ JobUpdateChunk
  \/ JobSetOutput
  \/ JobClearOutput

SpecJob == Init /\ [][NextJob]_vars

\* ----------------------------------- the repository and its callers' objects
CanAllocate == Len(mem.objs) < MaxObjects /\ Len(mem.arrs) < MaxArrays

\* New(): the caller builds the job
RepoNew ==
  /\ mem.objs = << >>
  /\ mem' = [mem EXCEPT !.objs = <<[status |-> StatusInQueue, progress |-> 0,
                                     chunks |-> 0]>>,
                         !.held = {1}, !.op = "New"]
  /\ UNCHANGED otherThanMem

\* Save: jobs[id] = job.Clone()
RepoSave ==
  /\ CanAllocate
  /\ \E a \in mem.held :
       LET m == CloneObject(mem, a)
       IN  mem' = [m EXCEPT !.stored = Len(m.objs), !.op = "Save"]
  /\ UNCHANGED otherThanMem

\* FindByID: return job.Clone()
RepoFindByID ==
  /\ CanAllocate
  /\ mem.stored # 0
  /\ LET m == CloneObject(mem, mem.stored)
     IN  mem' = [m EXCEPT !.held = @ \cup {Len(m.objs)}, !.op = "FindByID"]
  /\ UNCHANGED otherThanMem

\* List: a clone of every stored job
RepoList ==
  /\ CanAllocate
  /\ mem.stored # 0
  /\ LET m == CloneObject(mem, mem.stored)
     IN  mem' = [m EXCEPT !.held = @ \cup {Len(m.objs)}, !.op = "List"]
  /\ UNCHANGED otherThanMem

\* a caller calls Start on an object it holds
CallerStart ==
  /\ \E a \in mem.held :
       /\ canTransition(mem.objs[a].status, StatusRunning)
       /\ mem' = [mem EXCEPT !.objs[a].status = StatusRunning, !.op = "Start"]
  /\ UNCHANGED otherThanMem

\* a caller calls UpdateProgress on an object it holds
CallerUpdateProgress ==
  /\ \E a \in mem.held :
       /\ mem.objs[a].progress # 99
       /\ mem' = [mem EXCEPT !.objs[a].progress = 99, !.op = "UpdateProgress"]
  /\ UNCHANGED otherThanMem

\* a caller calls SetChunks with a slice it has made
CallerSetChunks ==
  /\ Len(mem.arrs) < MaxArrays
  /\ \E a \in mem.held, n \in 1..2 :
       mem' = [mem EXCEPT !.arrs = Append(@, [k \in 1..n |-> ChunkStatusPending]),
                          !.objs[a].chunks = Len(mem.arrs) + 1,
                          !.op = "SetChunks"]
  /\ UNCHANGED otherThanMem

\* a caller calls UpdateChunk: j.Chunks[index] = chunk, in place
CallerUpdateChunk ==
  /\ \E a \in mem.held :
       /\ mem.objs[a].chunks # 0
       /\ \E k \in DOMAIN mem.arrs[mem.objs[a].chunks] :
            /\ mem.arrs[mem.objs[a].chunks][k] = ChunkStatusPending
            /\ mem' = [mem EXCEPT !.arrs[mem.objs[a].chunks][k] = ChunkStatusCompleted,
                                  !.op = "UpdateChunk"]
  /\ UNCHANGED otherThanMem

NextRepo ==
  \/ RepoNew
  \/ RepoSave
  \/ RepoFindByID
  \/ RepoList
  \/ CallerStart
  \/ CallerUpdateProgress
  \/ CallerSetChunks
  \/ CallerUpdateChunk

SpecRepo == Init /\ [][NextRepo]_vars


\* --------------------------- the temporary files of two jobs' runs
\* SaveTemp: os.CreateTemp(tempDir, name_*) picks a name that does not exist
StagedPath(j, name) == name \o "_" \o j
\* resized_<jobID>.png, chunk_<jobID>_<idx>.mp4 and output_<jobID>.mp4 in
\* the directory of the staged files
ResizedFile(j) == "resized_" \o j \o ".png"
ChunkVideoFile(j, k) == "chunk_" \o j \o "_" \o ToString(k) \o ".mp4"
OutputFile(j) == "output_" \o j \o ".mp4"
\* the Splitter writes chunk_%03d.wav into the directory it is given, which
\* is the directory of the staged audio: the temporary directory
SegmentFile(j, k) == SegPath(k)

\* the disk after job j's run has written the paths ps
WriteFiles(disk, j, ps) ==
  [p \in DOMAIN disk \cup ps |-> IF p \in ps THEN j ELSE disk[p]]

\* the disk after os.Remove of each of the paths ps
RemoveFiles(disk, ps) == [p \in DOMAIN disk \ ps |-> disk[p]]

\* job j's run writes ps, tracks them in tempFiles and moves on
FileStep(j, ps, next) ==
  files' = [files EXCEPT
              !.disk = WriteFiles(@, j, ps),
              !.job[j] = [@ EXCEPT !.tempFiles = @ \cup ps,
                                   !.written = @ \cup ps,
                                   !.pc = next]]

\* steps 1 and 2: the image and the audio are staged
FilesStage(j) ==
  /\ files.job[j].pc = "idle"
  /\ FileStep(j, {StagedPath(j, "image.png"), StagedPath(j, "audio.wav")}, "resize")
  /\ UNCHANGED otherThanFiles

\* step 3: the resized image
FilesResize(j) ==
  /\ files.job[j].pc = "resize"
  /\ FileStep(j, {ResizedFile(j)}, "split")
  /\ UNCHANGED otherThanFiles

\* step 4: the Splitter writes its n segment files
FilesSplit(j) ==
  /\ files.job[j].pc = "split"
  /\ \E n \in 1..MaxChunksConc :
       LET ps == {SegmentFile(j, k) : k \in 0..(n - 1)}
       IN  files' = [files EXCEPT
                       !.disk = WriteFiles(@, j, ps),
                       !.job[j] = [@ EXCEPT !.tempFiles = @ \cup ps,
                                            !.written = @ \cup ps,
                                            !.n = n, !.i = 0, !.pc = "chunk"]]
  /\ UNCHANGED otherThanFiles

\* step 5, one chunk: the segment is read (the run fails when it is gone),
\* the chunk's video is written; after the last chunk the videos are
\* tracked in tempFiles
FilesChunk(j) ==
  /\ files.job[j].pc = "chunk"
  /\ LET fj  == files.job[j]
         seg == SegmentFile(j, fj.i)
         vid == ChunkVideoFile(j, fj.i)
         last == fj.i + 1 >= fj.n
     IN  IF seg \notin DOMAIN files.disk
         THEN files' = [files EXCEPT !.job[j].pc = "cleanup"]
         ELSE files' = [files EXCEPT
                          !.disk = WriteFiles(@, j, {vid}),
                          !.job[j] =
                            [@ EXCEPT
                               !.readFrom = @ \cup {files.disk[seg]},
                               !.written = @ \cup {vid},
                               !.tempFiles =
                                 IF last
                                 THEN @ \cup {ChunkVideoFile(j, k) : k \in 0..fj.i}
                                 ELSE @,
                               !.i = @ + 1,
                               !.pc = IF last THEN "join" ELSE "chunk"]]
  /\ UNCHANGED otherThanFiles

\* step 6: the joined video (not in tempFiles without an upload)
FilesJoin(j) ==
  /\ files.job[j].pc = "join"
  /\ files' = [files EXCEPT
                 !.disk = WriteFiles(@, j, {OutputFile(j)}),
                 !.job[j] = [@ EXCEPT !.written = @ \cup {OutputFile(j)},
                                      !.pc = "cleanup"]]
  /\ UNCHANGED otherThanFiles

\* the deferred CleanupTemp(tempFiles)
FilesCleanup(j) ==
  /\ files.job[j].pc = "cleanup"
  /\ files' = [files EXCEPT
                 !.disk = RemoveFiles(@, files.job[j].tempFiles),
                 !.job[j] = [@ EXCEPT !.deleted = files.job[j].tempFiles,
                                      !.pc = "done"]]
  /\ UNCHANGED otherThanFiles

NextFiles ==
  \E j \in Jobs :
    \/ FilesStage(j)
    \/ FilesResize(j)
    \/ FilesSplit(j)
    \/ FilesChunk(j)
    \/ FilesJoin(j)
    \/ FilesCleanup(j)

SpecFiles == Init /\ [][NextFiles]_vars


\* ------------------------------------------- the configured concurrency
\* values SetMaxConcurrentChunks is called with
ConcurrencyArgs == {-1, 0, 1, 2}

\* a setter that takes any value
SetMaxConcurrentChunksUnchecked(n) ==
  /\ maxConcurrentChunks' = n
  /\ UNCHANGED <<serviceVars, mem, files, splitter, poller, request, cuts, extractor, adapter>>

\* SetMaxConcurrentChunks: values that are not positive are ignored
SetMaxConcurrentChunks(n) ==
  /\ maxConcurrentChunks' = IF n > 0 THEN n ELSE maxConcurrentChunks
  /\ UNCHANGED <<serviceVars, mem, files, splitter, poller, request, cuts, extractor, adapter>>

\* the service with its concurrency set at any time, and one processing run
\* at a time
NextChunks ==
  \/ \E n \in ConcurrencyArgs : SetMaxConcurrentChunks(n)
  \/ RunStep("r1")
  \/ Return("r1")

SpecChunks == InitConc /\ [][NextChunks]_vars


\* ------------------------------------------------- one call of Split
\* Split is called with one of the recordings
InitSplit ==
  /\ repo = {}
  /\ run = [r \in Runs |-> IdleRun]
  /\ beamEnabled = FALSE
  /\ del = NoDelete
  /\ scope = [localFaults |-> FALSE, providerFaults |-> TRUE,
              segments |-> 1..MaxChunksConc, deletes |-> 0]
  /\ jb = NewJob(ProviderRunPod, FALSE)
  /\ lastOp = NoOp
  /\ mem = NoMem
  /\ files = NoFiles
  /\ maxConcurrentChunks = DefaultConcurrency
  /\ poller = NoPoll
  /\ request = NoRequest
  /\ cuts = NoCuts
  /\ extractor = NoExtract
  /\ adapter = NoAdapter
  /\ \/ splitter = [NoSplit EXCEPT !.pc = "called"]
     \/ \E d \in 1..MaxDuration, t \in TargetArgs :
          \E sl \in SilenceLists(d) :
            splitter = [NoSplit EXCEPT !.pc = "called",
                                       !.input = SplitInput(d, t, sl)]

\* the call returns
SplitterSplit ==
  /\ splitter.pc = "called"
  /\ splitter' = [splitter EXCEPT !.pc = "returned",
                                  !.result = SplitResult(splitter.input)]
  /\ UNCHANGED otherThanSplitter

NextSplit == SplitterSplit

SpecSplit == InitSplit /\ [][NextSplit]_vars


\* the state of the service when only a side machine runs
InitIdleService ==
  /\ repo = {}
  /\ run = [r \in Runs |-> IdleRun]
  /\ beamEnabled = FALSE
  /\ del = NoDelete
  /\ scope = [localFaults |-> FALSE, providerFaults |-> TRUE,
              segments |-> 1..MaxChunksConc, deletes |-> 0]
  /\ jb = NewJob(ProviderRunPod, FALSE)
  /\ lastOp = NoOp

\* ------------------------------------------ one call of the poll loop
\* pollForResultWithGenerator has been called and waits in its select
InitPoll ==
  /\ InitIdleService
  /\ mem = NoMem
  /\ files = NoFiles
  /\ maxConcurrentChunks = DefaultConcurrency
  /\ splitter = NoSplit
  /\ poller = [NoPoll EXCEPT !.pc = "select"]
  /\ request = NoRequest
  /\ cuts = NoCuts
  /\ extractor = NoExtract
  /\ adapter = NoAdapter

\* variant: a poll transport error ends the wait with the failed error
PollLoopTickAborts ==
  /\ poller.pc = "select"
  /\ poller.attempt < MaxTicks
  /\ \E res \in PollResults :
       LET p == [poller EXCEPT !.attempt = @ + 1, !.seen = Append(@, res)]
       IN  poller' =
             CASE res = "transport error" ->
                    [p EXCEPT !.pc = "returned", !.err = ErrProviderJobFailed]
               [] res = "COMPLETED" -> [p EXCEPT !.pc = "returned", !.ok = TRUE]
               [] PollError(res) # NoError ->
                    [p EXCEPT !.pc = "returned", !.err = PollError(res)]
               [] OTHER -> p
  /\ UNCHANGED otherThanPoller

\* the select takes the ticker branch: gen.Poll, then the switch on the status
PollLoopTick ==
  /\ poller.pc = "select"
  /\ poller.attempt < MaxTicks
  /\ \E res \in PollResults :
       LET p == [poller EXCEPT !.attempt = @ + 1, !.seen = Append(@, res)]
       IN  poller' =
             CASE res = "transport error" -> p
               [] res = "COMPLETED" -> [p EXCEPT !.pc = "returned", !.ok = TRUE]
               [] PollError(res) # NoError ->
                    [p EXCEPT !.pc = "returned", !.err = PollError(res)]
               [] OTHER -> p
  /\ UNCHANGED otherThanPoller

\* the select takes the ctx.Done branch
PollLoopDone ==
  /\ poller.pc = "select"
  /\ poller.cancelled
  /\ poller' = [poller EXCEPT !.pc = "returned", !.err = ErrContextCancelled]
  /\ UNCHANGED otherThanPoller

\* the caller cancels the context
PollLoopCancel ==
  /\ poller.pc = "select"
  /\ ~poller.cancelled
  /\ poller' = [poller EXCEPT !.cancelled = TRUE]
  /\ UNCHANGED otherThanPoller

NextPoll ==
  \/ PollLoopTick
  \/ PollLoopDone
  \/ PollLoopCancel

SpecPoll == InitPoll /\ [][NextPoll]_vars


\* ------------------------------------ one call of doRequestWithRetry
\* doRequestWithRetry is called on a client built with some maxRetries and
\* baseBackoff
InitRetry ==
  /\ InitIdleService
  /\ mem = NoMem
  /\ files = NoFiles
  /\ maxConcurrentChunks = DefaultConcurrency
  /\ splitter = NoSplit
  /\ poller = NoPoll
  /\ cuts = NoCuts
  /\ extractor = NoExtract
  /\ adapter = NoAdapter
  /\ \E n \in -1..MaxRetries, b \in BackoffArgs :
       request = [NoRequest EXCEPT !.pc = "loop", !.maxRetries = n,
                                   !.baseBackoff = b, !.backoff = b]

\* the head of the loop: attempt <= maxRetries, and the wait before a retry
RetryLoop ==
  /\ request.pc = "loop"
  /\ request' =
       IF ~(request.attempt <= request.maxRetries)
       THEN [request EXCEPT !.pc = "returned", !.err = ErrMaxRetriesExceeded]
       ELSE IF request.attempt > 0
       THEN [request EXCEPT !.pc = "wait"]
       ELSE [request EXCEPT !.pc = "request"]
  /\ UNCHANGED otherThanRequest

\* the select takes the time.After branch: the wait is over, backoff doubles
RetryWait ==
  /\ request.pc = "wait"
  /\ request' = [request EXCEPT !.waits = Append(@, request.backoff),
                                 !.backoff = @ * 2,
                                 !.pc = "request"]
  /\ UNCHANGED otherThanRequest

\* the select takes the ctx.Done branch
RetryDone ==
  /\ request.pc = "wait"
  /\ request.cancelled
  /\ request' = [request EXCEPT !.pc = "returned", !.err = ErrRetryCancelled]
  /\ UNCHANGED otherThanRequest

\* doRequest and what follows it in the loop body; with the context
\* cancelled the HTTP client fails the request
RetryRequest ==
  /\ request.pc = "request"
  /\ \E o \in RequestOutcomes :
       /\ request.cancelled => o = "transport error"
       /\ LET q == [request EXCEPT !.tried = Append(@, o)]
          IN  request' =
                IF o = "ok" THEN [q EXCEPT !.pc = "returned", !.err = ""]
                ELSE IF ~isRetryable(o)
                THEN [q EXCEPT !.pc = "returned",
                               !.err = IF o = "4xx" THEN ErrRequestFailed
                                       ELSE ErrUnmarshal]
                ELSE [q EXCEPT !.lastErr = o, !.attempt = @ + 1, !.pc = "loop"]
  /\ UNCHANGED otherThanRequest

\* the caller cancels the context
RetryCancel ==
  /\ request.pc \in {"loop", "wait", "request"}
  /\ ~request.cancelled
  /\ request' = [request EXCEPT !.cancelled = TRUE]
  /\ UNCHANGED otherThanRequest

NextRetry ==
  \/ RetryLoop
  \/ RetryWait
  \/ RetryDone
  \/ RetryRequest
  \/ RetryCancel

SpecRetry == InitRetry /\ [][NextRetry]_vars


\* -------------------------- the cut-point computation, one iteration a step
\* Split has found the input and its duration and detected the silences
InitCuts ==
  /\ InitIdleService
  /\ mem = NoMem
  /\ files = NoFiles
  /\ maxConcurrentChunks = DefaultConcurrency
  /\ splitter = NoSplit
  /\ poller = NoPoll
  /\ request = NoRequest
  /\ extractor = NoExtract
  /\ adapter = NoAdapter
  /\ \E d \in 1..MaxLoopDuration, ts \in LoopTargetArgs :
       \E sl \in SilenceLists(d) :
         cuts = [NoCuts EXCEPT !.pc = "called", !.silences = sl,
                               !.totalDuration = d, !.targetSec = ts]

\* the target of the computation, in ticks
CutsTarget == cuts.targetSec * TicksPerSecond

\* Split: a recording no longer than the target is copied; otherwise
\* calculateSplitPoints starts one of its two loops
CutsEnter ==
  /\ cuts.pc = "called"
  /\ cuts' =
       IF cuts.totalDuration <= CutsTarget
       THEN [cuts EXCEPT !.pc = "returned"]
       ELSE IF Len(cuts.silences) = 0
       THEN [cuts EXCEPT !.pc = "fixed", !.t = CutsTarget]
       ELSE [cuts EXCEPT !.pc = "loop", !.t = 0]
  /\ UNCHANGED otherThanCuts

\* fixedSplitPoints: the loop test, and one iteration when it holds
CutsFixedStep ==
  /\ cuts.pc = "fixed"
  /\ IF cuts.t < cuts.totalDuration - TicksPerSecond
     THEN /\ cuts.iter < MaxIterations
          /\ cuts' = [cuts EXCEPT !.splitPoints = Append(@, cuts.t),
                                   !.t = @ + CutsTarget,
                                   !.iter = @ + 1]
     ELSE cuts' = [cuts EXCEPT !.pc = "returned"]
  /\ UNCHANGED otherThanCuts

\* calculateSplitPoints: the loop test, and one iteration when it holds
CutsLoopStep ==
  /\ cuts.pc = "loop"
  /\ IF cuts.t < cuts.totalDuration - CutsTarget \div 2
     THEN /\ cuts.iter < MaxIterations
          /\ LET idealPoint == cuts.t + CutsTarget
                 bestSilence == findBestSilence(cuts.silences, idealPoint,
                                                CutsTarget \div 3)
                 splitPoint == SilenceMiddle(cuts.silences[bestSilence])
             IN  cuts' =
                   IF bestSilence # 0
                   THEN IF splitPoint > cuts.t + TicksPerSecond
                        THEN [cuts EXCEPT !.splitPoints = Append(@, splitPoint),
                                          !.t = splitPoint,
                                          !.iter = @ + 1]
                        ELSE [cuts EXCEPT
                                !.splitPoints =
                                   IF idealPoint < cuts.totalDuration
                                   THEN Append(@, idealPoint) ELSE @,
                                !.t = idealPoint,
                                !.iter = @ + 1]
                   ELSE [cuts EXCEPT
                           !.splitPoints =
                              IF idealPoint < cuts.totalDuration - TicksPerSecond
                              THEN Append(@, idealPoint) ELSE @,
                           !.t = idealPoint,
                           !.iter = @ + 1]
     ELSE cuts' = [cuts EXCEPT !.pc = "returned"]
  /\ UNCHANGED otherThanCuts

NextCuts ==
  \/ CutsEnter
  \/ CutsFixedStep
  \/ CutsLoopStep

\* the computation is not suspended: a step that can be taken is taken.
\* The model follows a loop for MaxIterations iterations; where it stops
\* following with the loop test still true, the code goes on iterating.
SpecCuts == InitCuts /\ [][NextCuts]_vars /\ WF_vars(NextCuts)


\* ------------------------------------------- one call of extractChunks
\* extractChunks has built its segments and is at the top of its loop; the
\* output directory holds no segment file
InitExtract ==
  /\ InitIdleService
  /\ mem = NoMem
  /\ files = NoFiles
  /\ maxConcurrentChunks = DefaultConcurrency
  /\ splitter = NoSplit
  /\ poller = NoPoll
  /\ request = NoRequest
  /\ cuts = NoCuts
  /\ adapter = NoAdapter
  /\ \E n \in 1..MaxSegments :
       extractor = [NoExtract EXCEPT !.pc = "loop", !.segments = n]

\* what one ffmpeg run leaves in the output directory: the output file when
\* the run succeeded; when it failed, the file or not
Written(disk, path, outcome) ==
  IF outcome = "ffmpeg error" THEN {disk, disk \cup {path}}
  ELSE {disk \cup {path}}

\* extractSegment, first try: extraction with the source's parameters, then
\* validation; a valid file ends the iteration, anything else goes to the
\* retry
ExtractFirst ==
  /\ extractor.pc = "loop"
  /\ extractor.i < extractor.segments
  /\ \E o \in ExtractOutcomes :
       \E d \in Written(extractor.disk, SegPath(extractor.i), o) :
         extractor' =
           IF o = "valid"
           THEN [extractor EXCEPT !.disk = d, !.i = @ + 1,
                   !.chunks = Append(@, SegPath(extractor.i))]
           ELSE [extractor EXCEPT !.disk = d, !.pc = "retry"]
  /\ UNCHANGED otherThanExtractor

\* extractSegment, the retry with normalization, then validation; a failure
\* makes extractChunks enter its cleanup loop
ExtractRetry ==
  /\ extractor.pc = "retry"
  /\ \E o \in ExtractOutcomes :
       \E d \in Written(extractor.disk, SegPath(extractor.i), o) :
         extractor' =
           IF o = "valid"
           THEN [extractor EXCEPT !.disk = d, !.i = @ + 1, !.pc = "loop",
                   !.chunks = Append(@, SegPath(extractor.i))]
           ELSE [extractor EXCEPT !.disk = d, !.pc = "cleanup", !.k = 0,
                   !.err = "extract segment"]
  /\ UNCHANGED otherThanExtractor

\* the cleanup loop: os.Remove of one path of chunks, or the return of
\* (nil, error) when the list is exhausted
ExtractCleanup ==
  /\ extractor.pc = "cleanup"
  /\ extractor' =
       IF extractor.k < Len(extractor.chunks)
       THEN [extractor EXCEPT !.k = @ + 1,
               !.disk = @ \ {extractor.chunks[extractor.k + 1]}]
       ELSE [extractor EXCEPT !.pc = "returned", !.returned = << >>]
  /\ UNCHANGED otherThanExtractor

\* every segment was extracted: extractChunks returns the paths
ExtractReturn ==
  /\ extractor.pc = "loop"
  /\ extractor.i = extractor.segments
  /\ extractor' = [extractor EXCEPT !.pc = "returned",
                     !.returned = extractor.chunks]
  /\ UNCHANGED otherThanExtractor

NextExtract ==
  \/ ExtractFirst
  \/ ExtractRetry
  \/ ExtractCleanup
  \/ ExtractReturn

SpecExtract == InitExtract /\ [][NextExtract]_vars


\* ------------------------------------- polls through a provider adapter
\* an adapter of one of the two providers has been built
InitAdapter ==
  /\ InitIdleService
  /\ mem = NoMem
  /\ files = NoFiles
  /\ maxConcurrentChunks = DefaultConcurrency
  /\ splitter = NoSplit
  /\ poller = NoPoll
  /\ request = NoRequest
  /\ cuts = NoCuts
  /\ extractor = NoExtract
  /\ \E p \in {ProviderRunPod, ProviderBeam} :
       adapter = [NoAdapter EXCEPT !.pc = "ready", !.provider = p]

\* Poll of the RunPod adapter: the client reports status s
RunPodPoll ==
  /\ adapter.pc = "ready"
  /\ adapter.provider = ProviderRunPod
  /\ Len(adapter.said) < MaxAdapterPolls
  /\ \E s \in StatusArgs :
       adapter' = [adapter EXCEPT !.said = Append(@, s),
                                  !.got = Append(@, RunPodAdapterPoll(s))]
  /\ UNCHANGED otherThanAdapter

\* Poll of the Beam adapter: the client reports status s
BeamPoll ==
  /\ adapter.pc = "ready"
  /\ adapter.provider = ProviderBeam
  /\ Len(adapter.said) < MaxAdapterPolls
  /\ \E s \in StatusArgs :
       adapter' = [adapter EXCEPT !.said = Append(@, s),
                                  !.got = Append(@, BeamAdapterPoll(s))]
  /\ UNCHANGED otherThanAdapter

NextAdapter ==
  \/ RunPodPoll
  \/ BeamPoll

SpecAdapter == InitAdapter /\ [][NextAdapter]_vars


\* ----------------------------------- one run over a 130-second recording
\* 130 seconds, a target of 45 seconds, silences at 44-45 s and 89-90 s
Recording130 ==
  SplitInput(130 * TicksPerSecond, 45,
             <<[start |-> 44 * TicksPerSecond, end |-> 45 * TicksPerSecond],
               [start |-> 89 * TicksPerSecond, end |-> 90 * TicksPerSecond]>>)

\* the Splitter returns what Split computes for the recording, the local
\* steps succeed and the provider completes every chunk (a poll may still
\* meet a transport error or a chunk that is not finished)
InitScenario ==
  /\ repo = {}
  /\ run = [r \in Runs |-> IdleRun]
  /\ beamEnabled = TRUE
  /\ del = NoDelete
  /\ scope = [localFaults |-> FALSE, providerFaults |-> FALSE,
              segments |-> {Len(SplitResult(Recording130).segments)},
              deletes |-> 0]
  /\ jb = NewJob(ProviderRunPod, FALSE)
  /\ lastOp = NoOp
  /\ InitSide

\* one run of a new job
NextScenario ==
  \/ CreateJob
  \/ RunStep("r1")

SpecScenario == InitScenario /\ [][NextScenario]_vars


\* ------------------------------------------------------------------ claims

\* the seven pairs the state machine allows
LegalPairs ==
  {<<"IN_QUEUE", "RUNNING">>, <<"IN_QUEUE", "CANCELLED">>,
   <<"IN_QUEUE", "TIMED_OUT">>, <<"RUNNING", "COMPLETED">>,
   <<"RUNNING", "FAILED">>, <<"RUNNING", "CANCELLED">>,
   <<"RUNNING", "TIMED_OUT">>}

\* C1: TransitionTo(t) on a job in status s succeeds, and sets the status to
\* t, only for the seven legal pairs; for every other pair (every pair out of
\* a terminal status among them) it returns ErrInvalidTransition and the
\* status stays s.
C1_TransitionTable ==
  lastOp.op = "TransitionTo" =>
    /\ lastOp.err = NoError =>
         /\ <<lastOp.from, lastOp.to>> \in LegalPairs
         /\ jb.status = lastOp.to
    /\ <<lastOp.from, lastOp.to>> \notin LegalPairs =>
         /\ lastOp.err = ErrInvalidTransition
         /\ jb.status = lastOp.from

\* a transition out of COMPLETED was asked for and rejected
C1_Witness ==
  /\ lastOp.op = "TransitionTo"
  /\ lastOp.from = StatusCompleted
  /\ lastOp.to = StatusRunning
  /\ lastOp.err = ErrInvalidTransition
  /\ jb.status = StatusCompleted


\* processJob of run r has built its result (only the deferred cleanup may
\* still be to come)
RunEnded(r) == run[r].pc \in {"cleanup", "done"}

\* the job error is "chunk k failed: ...: <the error recorded on chunk k>"
CarriesChunkFailure(j, k) ==
  LET ce == j.chunks[k].error
      n  == Len(j.error)
  IN  /\ n > Len(ce)
      /\ Head(j.error) = ChunkFailed(k)
      /\ SubSeq(j.error, n - Len(ce) + 1, n) = ce

\* what C2 says of every run whose chunk loop gave up at chunk k, apart
\* from the error texts
C2_Aborts(r, k) ==
  /\ run[r].submitted \cup run[r].polled \subseteq 0..k
  /\ run[r].joinCalls = 0
  /\ run[r].job.status = StatusFailed
  /\ run[r].outcome.status = StatusFailed
  /\ run[r].job.outputVideoPath = ""

\* C2 as claimed: when the chunk loop gives up at chunk k (a failure inside
\* the chunk or the run's cancellation), no Submit or Poll is issued for a
\* later chunk, the join is not invoked, the job ends FAILED with an error
\* carrying chunk k's failure, chunks[k].error is non-empty and
\* outputVideoPath stays empty.
C2_Original ==
  \A r \in Runs :
    (RunEnded(r) /\ run[r].failedAt >= 0) =>
      LET k == run[r].failedAt
      IN  /\ C2_Aborts(r, k)
          /\ run[r].job.chunks[k].error # NoError
          /\ CarriesChunkFailure(run[r].job, k)

\* C2 amended: the same, except that a cancellation seen by the check at
\* the top of the loop, before chunk k is started, leaves chunk k PENDING
\* without an error and makes the job's error the cancellation error.
C2_FirstChunkFailure ==
  \A r \in Runs :
    (RunEnded(r) /\ run[r].failedAt >= 0) =>
      LET k == run[r].failedAt
          c == run[r].job.chunks[k]
      IN  /\ C2_Aborts(r, k)
          /\ \A m \in 0..(k - 1) :
               run[r].job.chunks[m].status = ChunkStatusCompleted
          /\ \/ /\ c.status = ChunkStatusFailed
                /\ c.error # NoError
                /\ CarriesChunkFailure(run[r].job, k)
             \/ /\ c.status = ChunkStatusPending
                /\ c.error = NoError
                /\ run[r].observed
                /\ run[r].job.error = ErrContextCancelled

\* the scenario of the spec: chunks 0 and 1 completed, the provider reported
\* FAILED for chunk 2, and the run has returned
C2_Witness ==
  /\ run["r1"].pc = "done"
  /\ run["r1"].failedAt = 2
  /\ run["r1"].job.chunks[2].error = ErrProviderJobFailed
  /\ run["r1"].job.chunks[0].status = ChunkStatusCompleted
  /\ run["r1"].job.chunks[1].status = ChunkStatusCompleted
  /\ run["r1"].job.status = StatusFailed

\* every job the service holds: the persisted one and each run's copy
ProgressConsistent(j) == (j.progress = 100) <=> (j.status = StatusCompleted)

\* C3: during one run the job's progress never decreases, and in every
\* reachable state progress is 100 exactly when the status is COMPLETED
\* (of the persisted job and of each run's job).
C3_Progress ==
  /\ [](/\ \A j \in repo : ProgressConsistent(j)
        /\ \A r \in Runs : ProgressConsistent(run[r].job))
  /\ [][\A r \in Runs :
          (run[r].pc # "idle" /\ run'[r].pc # "idle") =>
            run'[r].job.progress >= run[r].job.progress]_vars

\* a three-chunk run has completed: progress went 0, 30, 60, 90, 100
C3_Witness ==
  /\ run["r1"].pc = "done"
  /\ NumChunks(run["r1"].job) = 3
  /\ run["r1"].job.status = StatusCompleted
  /\ run["r1"].job.progress = 100
  /\ repo = {run["r1"].job}

\* C4 as claimed: a call that has returned an Outcome leaves the job in a
\* terminal status, and the Outcome carries that status.
C4_Original ==
  \A r \in Runs :
    (run[r].pc = "done" /\ run[r].outcome # NoOutcome) =>
      /\ run[r].job.status \in TerminalStatuses
      /\ run[r].outcome.status = run[r].job.status

\* C5 as claimed: once the persisted status is terminal it never changes.
C5_Original ==
  [][\A j \in repo :
       j.status \in TerminalStatuses =>
         \A k \in repo' : k.status = j.status]_vars

\* C6 as claimed: when a run has returned, every temporary file it created
\* has been handed to CleanupTemp.
C6_Original ==
  \A r \in Runs : run[r].pc = "done" => run[r].created \subseteq run[r].cleaned

\* a step of DeleteJobVideo that saves the job with its output cleared
IsDeleteSave == del.pc = "found" /\ del'.pc = "idle"

\* C7 as claimed: once the persisted job is terminal, no step other than
\* the ClearOutput of DeleteJobVideo changes any of its fields.
C7_Original ==
  [][\A j \in repo :
       (j.status \in TerminalStatuses /\ ~IsDeleteSave) => repo' = repo]_vars

\* C8 as claimed: the error is non-empty only if the status is FAILED.
C8_Original ==
  /\ \A j \in repo : j.error # NoError => j.status = StatusFailed
  /\ \A r \in Runs : run[r].job.error # NoError => run[r].job.status = StatusFailed

\* C9 as claimed: once the job's error is set, no later failure (in the same
\* run or in a later call on the job) replaces it.
C9_Original ==
  [][\A j \in repo :
       (j.error # NoError /\ ~IsDeleteSave) =>
         \A k \in repo' : k.error = j.error]_vars

\* a step of run r that calls the provider
CallsProvider(r) ==
  /\ run'[r].pc # "idle"
  /\ \/ run'[r].submitted # run[r].submitted
     \/ run'[r].pollCount = run[r].pollCount + 1

C10_OriginalEnds ==
  \A r \in Runs :
    (run[r].pc = "done" /\ run[r].cancelled /\ NumChunks(run[r].job) > 0) =>
      run[r].job.status \in {StatusFailed, StatusCancelled}

SplitterOutput(r) == {k \in 0..MaxChunks : SegPath(k) \in run[r].created}

\* a dry run that got past the Splitter has returned or is about to
DryRunEnded(r) ==
  /\ run[r].input.dryRun
  /\ run[r].pc \in {"cleanup", "done"}
  /\ SplitterOutput(r) # {}

\* C11: a run with the dry-run flag makes no provider Submit and no Poll
\* call; once the Splitter has returned its segments the run ends with the
\* job COMPLETED, progress 100, one PENDING chunk per segment and neither an
\* output path nor a URL, and that is the job it saves and reports.
C11_DryRun ==
  /\ [](\A r \in Runs :
          (run[r].input.dryRun /\ run[r].pc # "idle") =>
            /\ run[r].submitted = {}
            /\ run[r].polled = {}
            /\ DryRunEnded(r) =>
                 /\ run[r].job.status = StatusCompleted
                 /\ run[r].job.progress = 100
                 /\ DOMAIN run[r].job.chunks = SplitterOutput(r)
                 /\ \A k \in SplitterOutput(r) :
                      run[r].job.chunks[k].status = ChunkStatusPending
                 /\ run[r].job.outputVideoPath = ""
                 /\ run[r].job.videoURL = ""
                 /\ run[r].outcome =
                      [NoOutcome EXCEPT !.status = StatusCompleted])
  /\ [][\A r \in Runs :
         (run[r].pc = "dryRun" /\ run'[r].pc = "cleanup") =>
           repo' = {run'[r].job}]_vars

\* a dry run over two segments has returned
C11_Witness ==
  /\ run["r1"].pc = "done"
  /\ run["r1"].input.dryRun
  /\ SplitterOutput("r1") = {0, 1}
  /\ run["r1"].job.status = StatusCompleted
  /\ repo = {run["r1"].job}

\* a step that ends a DeleteJobVideo call
DeleteReturns == del'.count > del.count \/ (del.pc = "found" /\ del'.pc = "idle")

\* C12: DeleteJobVideo on an existing job returns success when the file was
\* removed and when it was already missing, and the job it saves has an
\* empty outputVideoPath and videoURL; called again on that saved job it
\* returns success and saves the same job; it returns the not-found error
\* exactly when the repository holds no job under the id.
C12_DeleteIdempotent ==
  [][DeleteReturns =>
       /\ (del'.result = ErrJobNotFound) <=> (repo = {} /\ del.pc = "idle")
       /\ (del.pc = "found" /\ del'.rm # "error") =>
            /\ del'.result = "ok"
            /\ \A j \in repo' : j.outputVideoPath = "" /\ j.videoURL = ""
            /\ repo' # {}
       /\ (del.pc = "found" /\ del.prev = {del.job}) =>
            /\ del'.result = "ok"
            /\ repo' = del.prev]_vars

\* a call removed the file of a completed job, a second call on the job it
\* saved has returned success without meeting a file
C12_Witness ==
  /\ del.count = 2
  /\ del.pc = "idle"
  /\ del.result = "ok"
  /\ del.rm = ""
  /\ repo = del.prev
  /\ \E j \in repo : j.status = StatusCompleted /\ j.progress = 100
  /\ run["r1"].job.outputVideoPath = OutputPath

\* C13: ClearOutput on a job in any status empties outputVideoPath and
\* videoURL and leaves status, progress, error, chunks, startedAt and
\* completedAt (and provider, pushToS3) as they were.
C13_ClearOutputFrame ==
  [][lastOp'.op = "ClearOutput" =>
       /\ jb'.outputVideoPath = ""
       /\ jb'.videoURL = ""
       /\ jb'.status = jb.status
       /\ jb'.progress = jb.progress
       /\ jb'.error = jb.error
       /\ jb'.chunks = jb.chunks
       /\ jb'.startedAt = jb.startedAt
       /\ jb'.completedAt = jb.completedAt
       /\ jb'.provider = jb.provider
       /\ jb'.pushToS3 = jb.pushToS3]_vars

\* ClearOutput was called on a FAILED job that had progress, an error,
\* chunks and an output, and the other fields are still there
C13_Witness ==
  /\ lastOp.op = "ClearOutput"
  /\ lastOp.from = StatusFailed
  /\ jb.status = StatusFailed
  /\ jb.progress = 45
  /\ jb.error = <<"e1">>
  /\ NumChunks(jb) = 2
  /\ jb.completedAt
  /\ jb.outputVideoPath = ""
  /\ jb.videoURL = ""

\* the objects the repository and its callers hold share no Chunks slice
NoSharedSlice ==
  /\ mem.stored \notin mem.held
  /\ \A a \in mem.held :
       mem.stored # 0 =>
         \/ mem.objs[a].chunks = 0
         \/ mem.objs[a].chunks # mem.objs[mem.stored].chunks

\* C14: the repository stores a copy on Save and hands out copies from
\* FindByID and List, down to the chunk slice: whatever callers do to the
\* objects they hold, what FindByID returns changes only when Save is called.
C14_DeepCopies ==
  /\ []NoSharedSlice
  /\ [][Found(mem') # Found(mem) => mem'.op = "Save"]_vars

\* a caller saved a job with chunks, then completed a chunk on the object it
\* had saved and on one it got from FindByID; the stored job is as saved
C14_Witness ==
  /\ mem.stored # 0
  /\ mem.op = "UpdateChunk"
  /\ \E j \in Found(mem) :
       /\ Len(j.chunks) = 2
       /\ \A k \in 1..2 : j.chunks[k] = ChunkStatusPending
  /\ \E a \in mem.held, b \in mem.held :
       /\ a < mem.stored
       /\ b > mem.stored
       /\ JobAt(mem, a).chunks[1] = ChunkStatusCompleted
       /\ JobAt(mem, b).chunks[1] = ChunkStatusCompleted

\* the paths job j's run has written or deleted
Touched(j) == files.job[j].written \cup files.job[j].deleted

\* C15 as claimed: the runs of two different jobs write and delete disjoint
\* sets of temporary files, and so a run reads only segments it wrote.
C15_Original ==
  /\ Touched("j1") \cap Touched("j2") = {}
  /\ \A j \in Jobs : files.job[j].readFrom \subseteq {j}

\* the run of j1 has submitted, as its own first chunk, the segment file
\* that the run of j2 wrote over it
C15_Witness ==
  /\ SegPath(0) \in files.job["j1"].written \cap files.job["j2"].written
  /\ files.job["j1"].readFrom = {"j2"}

\* the chunks of job j that are PROCESSING
Processing(j) == {k \in DOMAIN j.chunks : j.chunks[k].status = ChunkStatusProcessing}

SplitReturned == splitter.pc = "returned" /\ splitter.result.err = ""

\* the target of the call, in ticks
SplitTarget == splitter.input.targetSec * TicksPerSecond

\* C17: for a recording no longer than targetSeconds, Split returns exactly
\* one segment, which is a copy of the whole input, and computes no cut.
C17_ShortRecording ==
  (SplitReturned /\ splitter.input.duration <= SplitTarget) =>
    /\ splitter.result.segments =
         <<[start |-> 0, end |-> splitter.input.duration]>>
    /\ splitter.result.copied
    /\ ~splitter.result.detected
    /\ splitter.result.points = << >>

\* Split has returned the one segment of a recording exactly as long as the
\* target, in which there was a silence
C17_Witness ==
  /\ SplitReturned
  /\ splitter.input.duration = SplitTarget
  /\ splitter.input.silences # << >>
  /\ Len(splitter.result.segments) = 1
  /\ splitter.result.copied

\* the cut point before the k-th one returned (0 before the first)
PrecedingCut(k) == IF k = 1 THEN 0 ELSE splitter.result.points[k - 1]

\* Split has returned for a recording longer than the target in which at
\* least one silence was detected
SplitWithSilences ==
  /\ SplitReturned
  /\ splitter.input.duration > SplitTarget
  /\ splitter.input.silences # << >>

\* C18: for a recording longer than targetSeconds with at least one detected
\* silence, every cut point lies within targetSeconds/3 of the preceding cut
\* point (0 for the first) plus targetSeconds.
C18_CutsNearIdeal ==
  SplitWithSilences =>
    \A k \in DOMAIN splitter.result.points :
      abs(splitter.result.points[k] - (PrecedingCut(k) + SplitTarget))
        <= SplitTarget \div 3

\* Split has cut at the middle of a silence that is not at the ideal point,
\* and then at an ideal point
C18_Witness ==
  /\ SplitWithSilences
  /\ Len(splitter.result.points) = 2
  /\ splitter.result.points[1] = SilenceMiddle(splitter.input.silences[1])
  /\ splitter.result.points[1] # SplitTarget
  /\ splitter.result.points[2] = splitter.result.points[1] + SplitTarget

\* Split has returned for a recording longer than the target in which no
\* silence was detected
SplitWithoutSilences ==
  /\ SplitReturned
  /\ splitter.input.duration > SplitTarget
  /\ splitter.input.silences = << >>

\* C19: for a recording of duration D longer than targetSeconds with no
\* detected silence, the cut points are exactly the multiples k*targetSeconds
\* (k >= 1) smaller than D - 1 second, in increasing order.
C19_FixedStride ==
  SplitWithoutSilences =>
    /\ \A k \in 1..MaxDuration :
         (k * SplitTarget < splitter.input.duration - TicksPerSecond)
           <=> (k \in DOMAIN splitter.result.points)
    /\ \A k \in DOMAIN splitter.result.points :
         splitter.result.points[k] = k * SplitTarget
    /\ \A k \in DOMAIN splitter.result.points :
         splitter.result.points[k] < splitter.input.duration - TicksPerSecond

\* Split has returned two fixed cuts for a recording that ends less than a
\* second after the third multiple of the target
C19_Witness ==
  /\ SplitWithoutSilences
  /\ splitter.input.duration > 3 * SplitTarget
  /\ splitter.input.duration - TicksPerSecond <= 3 * SplitTarget
  /\ splitter.result.points = <<SplitTarget, 2 * SplitTarget>>
  /\ Len(splitter.result.segments) = 3

\* C20: for a 130-second recording with a target of 45 seconds and silences
\* detected at 44-45 s and 89-90 s, Split cuts at 44.5 s and 89.5 s; a run
\* over it (not a dry run) with a provider that completes every chunk has 3
\* chunks, makes exactly 3 provider submissions, one per chunk, and ends
\* with the job COMPLETED at progress 100, which is the job it saves.
C20_Scenario ==
  /\ SplitResult(Recording130).points =
       <<(89 * TicksPerSecond) \div 2, (179 * TicksPerSecond) \div 2>>
  /\ Len(SplitResult(Recording130).segments) = 3
  /\ \A r \in Runs :
       /\ run[r].submitCalls = Cardinality(run[r].submitted)
       /\ (run[r].pc = "done" /\ ~run[r].input.dryRun) =>
            /\ NumChunks(run[r].job) = 3
            /\ \A k \in 0..2 : run[r].job.chunks[k].status = ChunkStatusCompleted
            /\ run[r].submitCalls = 3
            /\ run[r].submitted = {0, 1, 2}
            /\ run[r].job.status = StatusCompleted
            /\ run[r].job.progress = 100
            /\ run[r].outcome.status = StatusCompleted
            /\ repo = {run[r].job}

\* the run over the recording has returned after three submissions, the
\* last chunk having needed a second poll
C20_Witness ==
  /\ scope.segments = {3}
  /\ run["r1"].pc = "done"
  /\ ~run["r1"].input.dryRun
  /\ run["r1"].submitCalls = 3
  /\ run["r1"].pollCount = 2
  /\ run["r1"].joinCalls = 1
  /\ run["r1"].job.status = StatusCompleted

\* what the provider answered at the last tick ("" before the first)
LastSeen == IF poller.seen = << >> THEN "" ELSE poller.seen[Len(poller.seen)]

\* the loop returned because of what the provider answered at the last tick
ReturnedOnStatus ==
  /\ poller.pc = "returned"
  /\ poller.err # ErrContextCancelled

\* C21: the poll loop returns success only when the provider reports
\* COMPLETED (and then it does); on FAILED, CANCELLED and TIMED_OUT it
\* returns the failed, the cancelled and the timed-out error, three different
\* kinds, and that answer is the last poll of the submission; on PENDING,
\* IN_QUEUE and RUNNING it does not return but waits for the next tick, at
\* which it polls again (only the cancellation of the context ends the wait).
C21_PollLoop ==
  /\ [](/\ poller.ok => (poller.pc = "returned" /\ LastSeen = "COMPLETED"
                          /\ poller.err = NoError)
        /\ LastSeen = "COMPLETED" => (poller.pc = "returned" /\ poller.ok)
        /\ LastSeen \in {"FAILED", "FAILED: msg"} =>
             (ReturnedOnStatus /\ ~poller.ok
              /\ Head(poller.err) = Head(ErrProviderJobFailed))
        /\ LastSeen = "CANCELLED" =>
             (ReturnedOnStatus /\ ~poller.ok /\ poller.err = ErrProviderJobCancelled)
        /\ LastSeen = "TIMED_OUT" =>
             (ReturnedOnStatus /\ ~poller.ok /\ poller.err = ErrProviderJobTimedOut)
        /\ Cardinality({Head(ErrProviderJobFailed), Head(ErrProviderJobCancelled),
                        Head(ErrProviderJobTimedOut)}) = 3
        /\ \A k \in 1..(Len(poller.seen) - 1) :
             poller.seen[k] \notin {"COMPLETED", "FAILED", "FAILED: msg",
                                    "CANCELLED", "TIMED_OUT"}
        /\ LastSeen \in {"PENDING", "IN_QUEUE", "RUNNING"} =>
             \/ poller.pc = "select"
             \/ poller.cancelled /\ poller.err = ErrContextCancelled)
  /\ [][(poller.pc = "select" /\ poller'.pc = "select"
         /\ poller'.cancelled = poller.cancelled) =>
          /\ poller'.attempt = poller.attempt + 1
          /\ Len(poller'.seen) = poller'.attempt]_vars

\* the provider answered IN_QUEUE, then RUNNING, then CANCELLED, and the
\* loop returned the cancelled error
C21_Witness ==
  /\ poller.seen = <<"IN_QUEUE", "RUNNING", "CANCELLED">>
  /\ poller.pc = "returned"
  /\ poller.err = ErrProviderJobCancelled
  /\ ~poller.cancelled

RECURSIVE Pow2(_)
Pow2(n) == IF n <= 0 THEN 1 ELSE 2 * Pow2(n - 1)

\* the failures after which another attempt may follow
RetryableFailures == {"transport error", "5xx", "429"}

\* C22: a provider HTTP request is attempted at most maxRetries + 1 times;
\* every attempt but the last one made met a retryable failure (a transport
\* error, a 5xx or a 429); every retry comes after a wait, the wait before the
\* k-th retry being baseBackoff * 2^(k-1); and when the last of the
\* maxRetries + 1 attempts has also met a retryable failure the call returns
\* the 'max retries exceeded' error, which it returns in no other case.
C22_BoundedRetry ==
  LET n == Len(request.tried)
  IN  /\ n <= request.maxRetries + 1
      /\ \A k \in 1..(n - 1) : request.tried[k] \in RetryableFailures
      /\ n <= Len(request.waits) + 1
      /\ \A k \in 1..Len(request.waits) :
           request.waits[k] = request.baseBackoff * Pow2(k - 1)
      /\ (/\ request.pc = "returned"
          /\ n = request.maxRetries + 1
          /\ n > 0
          /\ request.tried[n] \in RetryableFailures) =>
            request.err = ErrMaxRetriesExceeded
      /\ request.err = ErrMaxRetriesExceeded =>
            (/\ request.pc = "returned"
             /\ n = request.maxRetries + 1
             /\ \A k \in 1..n : request.tried[k] \in RetryableFailures)

\* maxRetries is 2 and baseBackoff 3: a 5xx, a 429 and a transport error,
\* with waits of 3 and 6 between them, and the call gave up
C22_Witness ==
  /\ request.pc = "returned"
  /\ request.maxRetries = 2
  /\ request.tried = <<"5xx", "429", "transport error">>
  /\ request.waits = <<3, 6>>
  /\ request.err = ErrMaxRetriesExceeded
  /\ ~request.cancelled

\* how far a job status and a chunk status have got
StatusRank(st) ==
  CASE st = StatusInQueue -> 0 [] st = StatusRunning -> 1 [] OTHER -> 2

ChunkRank(st) ==
  CASE st = ChunkStatusPending -> 0 [] st = ChunkStatusProcessing -> 1
    [] OTHER -> 2

\* job k is not an earlier snapshot than job j
NotReverted(j, k) ==
  /\ StatusRank(k.status) >= StatusRank(j.status)
  /\ k.progress >= j.progress
  /\ NumChunks(k) >= NumChunks(j)
  /\ \A i \in DOMAIN j.chunks :
       ChunkRank(k.chunks[i].status) >= ChunkRank(j.chunks[i].status)

\* C23 as claimed: the save of a DeleteJobVideo call made while a run of the
\* job is active never takes the persisted job back: its status, progress
\* and chunks are not those of an earlier snapshot, and a job persisted as
\* terminal stays terminal.
C23_Original ==
  [][(IsDeleteSave /\ Active("r1")) =>
       \A j \in repo : \A k \in repo' : NotReverted(j, k)]_vars

\* the run has completed the job and returned, a DeleteJobVideo call that
\* had read the job before has saved its copy since: the persisted job is
\* RUNNING with less progress than the run reported
C23_Witness ==
  /\ run["r1"].pc = "done"
  /\ run["r1"].job.status = StatusCompleted
  /\ del.pc = "idle"
  /\ del.result = "ok"
  /\ repo = del.prev
  /\ \E j \in repo : j.status = StatusRunning /\ j.progress < 100

\* the persisted job j shows what the run's job rj shows: status, progress,
\* and the status of every chunk
ShowsSame(j, rj) ==
  /\ j.status = rj.status
  /\ j.progress = rj.progress
  /\ DOMAIN j.chunks = DOMAIN rj.chunks
  /\ \A i \in DOMAIN rj.chunks : j.chunks[i].status = rj.chunks[i].status

\* run r is about to call the provider or has provider work outstanding
AtProvider(r) == run[r].pc \in {"submit", "poll"}

\* C24 as claimed: whenever a run is about to call the provider, or waits
\* for it, every change it has made to the job's status, chunks and progress
\* has been saved: the persisted job shows the chunk being worked on as
\* PROCESSING.
C24_Original ==
  \A r \in Runs :
    AtProvider(r) =>
      /\ repo # {}
      /\ \A j \in repo :
           /\ ShowsSame(j, run[r].job)
           /\ j.chunks[run[r].i].status = ChunkStatusProcessing

\* the first chunk has been submitted and the run polls for it: the run's
\* job has the chunk PROCESSING, the persisted job has it PENDING
C24_Witness ==
  /\ run["r1"].pc = "poll"
  /\ run["r1"].i = 0
  /\ run["r1"].job.chunks[0].status = ChunkStatusProcessing
  /\ run["r1"].job.chunks[0].submitted
  /\ \E j \in repo : j.chunks[0].status = ChunkStatusPending

\* C25: the service processes chunks one after the other: the Job a run
\* works on never has more than one chunk PROCESSING, nor has the persisted
\* job, and while the run's Submit or Poll is outstanding exactly one chunk
\* of its Job is PROCESSING, the one the call is for.
C25_OneProcessing ==
  /\ \A j \in repo : Cardinality(Processing(j)) <= 1
  /\ \A r \in Runs :
       /\ Cardinality(Processing(run[r].job)) <= 1
       /\ AtProvider(r) =>
            /\ Cardinality(Processing(run[r].job)) = 1
            /\ Processing(run[r].job) = {run[r].i}

\* three chunks: the first is COMPLETED, the run polls for the second, the
\* third has not been started
C25_Witness ==
  /\ run["r1"].pc = "poll"
  /\ run["r1"].pollCount = 1
  /\ NumChunks(run["r1"].job) = 3
  /\ run["r1"].job.chunks[0].status = ChunkStatusCompleted
  /\ Processing(run["r1"].job) = {1}
  /\ run["r1"].job.chunks[2].status = ChunkStatusPending

\* Split has returned for a recording longer than the target
SplitLongRecording ==
  /\ SplitReturned
  /\ splitter.input.duration > SplitTarget

\* C26: for every duration D greater than targetSeconds and every
\* time-ordered list of silences inside [0, D], the cut points are strictly
\* increasing and lie strictly between 0 and D, and the segments extracted
\* are [0,c1), [c1,c2), ..., [cn,D): one more than the cuts, contiguous, each
\* of positive length, covering the whole recording.
C26_SegmentsPartition ==
  SplitLongRecording =>
    LET pts  == splitter.result.points
        segs == splitter.result.segments
        D    == splitter.input.duration
    IN  /\ \A k \in DOMAIN pts : 0 < pts[k] /\ pts[k] < D
        /\ \A k \in 1..(Len(pts) - 1) : pts[k] < pts[k + 1]
        /\ Len(segs) = Len(pts) + 1
        /\ segs[1].start = 0
        /\ segs[Len(segs)].end = D
        /\ \A k \in DOMAIN segs : segs[k].start < segs[k].end
        /\ \A k \in DOMAIN pts :
             segs[k].end = pts[k] /\ segs[k + 1].start = pts[k]

\* a recording of a whole number of targets with a silence in it: three
\* cuts, the first at the silence and not at the ideal point, and a last
\* segment shorter than a second
C26_Witness ==
  /\ SplitLongRecording
  /\ splitter.input.silences # << >>
  /\ splitter.input.duration = 4 * SplitTarget
  /\ Len(splitter.result.points) = 3
  /\ splitter.result.points[1] = SilenceMiddle(splitter.input.silences[1])
  /\ splitter.result.points[1] # SplitTarget
  /\ splitter.input.duration - splitter.result.points[3] < TicksPerSecond

\* C27 as claimed: for every duration, every silence list and every integer
\* targetSeconds Split takes from its options, the cut-point computation
\* comes to an end.
C27_Original == <>(cuts.pc = "returned")

\* the step-by-step computation agrees with calculateSplitPoints where that
\* is defined
CutsAgree ==
  (cuts.pc = "returned" /\ cuts.targetSec >= 1
     /\ cuts.totalDuration > CutsTarget) =>
    cuts.splitPoints =
      calculateSplitPoints(cuts.silences, cuts.totalDuration, CutsTarget)

\* ChunkTargetSec is 0 and a silence was detected: after MaxIterations
\* iterations lastSplit is still 0, the loop test still holds and the list
\* has grown by one cut at 0 in each iteration
C27_Witness ==
  /\ cuts.pc = "loop"
  /\ cuts.targetSec = 0
  /\ cuts.iter = MaxIterations
  /\ cuts.t = 0
  /\ cuts.t < cuts.totalDuration - CutsTarget \div 2
  /\ Len(cuts.splitPoints) = MaxIterations
  /\ \A k \in DOMAIN cuts.splitPoints : cuts.splitPoints[k] = 0

\* the middles of the detected silences that lie within a third of the
\* target of point ideal
NearMiddles(ideal) ==
  {SilenceMiddle(cuts.silences[k]) : k \in DOMAIN cuts.silences} \cap
  {m \in -MaxLoopDuration..(3 * MaxLoopDuration) :
     abs(m - ideal) < CutsTarget \div 3}

\* the middles among them that are closest to ideal
ClosestMiddles(ideal) ==
  {m \in NearMiddles(ideal) :
     \A m2 \in NearMiddles(ideal) : abs(m - ideal) <= abs(m2 - ideal)}

\* a step that is one iteration of the loop of calculateSplitPoints
LoopIteration ==
  /\ cuts.pc = "loop"
  /\ cuts'.pc = "loop"
  /\ cuts'.iter = cuts.iter + 1
  /\ cuts.targetSec >= 1

\* C28 as claimed: in each iteration, with last cut p and ideal = p +
\* targetSeconds: if a silence middle lies within targetSeconds/3 of ideal
\* and the closest one exceeds p + 1 second, the cut is placed at that
\* middle; in every other case it is placed at ideal, unless ideal is within
\* 1 second of the end of the recording, and then no cut is placed.
C28_Original ==
  [][LoopIteration =>
       LET last  == cuts.t
           ideal == cuts.t + CutsTarget
       IN  IF \E m \in ClosestMiddles(ideal) : m > last + TicksPerSecond
           THEN \E m \in ClosestMiddles(ideal) :
                  cuts'.splitPoints = Append(cuts.splitPoints, m)
           ELSE IF ideal >= cuts.totalDuration - TicksPerSecond
           THEN cuts'.splitPoints = cuts.splitPoints
           ELSE cuts'.splitPoints = Append(cuts.splitPoints, ideal)]_vars

\* a recording of 1.5 seconds split with a target of 1 second, a silence
\* ending at the ideal point: the cut is at 1 second, half a second before
\* the end
C28_Witness ==
  /\ cuts.pc = "returned"
  /\ cuts.targetSec = 1
  /\ cuts.totalDuration = 9
  /\ cuts.silences = <<[start |-> 4, end |-> 6]>>
  /\ cuts.splitPoints = <<TicksPerSecond>>

\* the chunk statuses a chunk in status st may have after one step of run r
\* that works on chunk i: a chunk whose audio cannot be read is marked
\* PROCESSING and FAILED in the same step
NextChunkStatuses(st, atTop) ==
  CASE st = ChunkStatusPending ->
         {ChunkStatusPending, ChunkStatusProcessing} \cup
         (IF atTop THEN {ChunkStatusFailed} ELSE {})
    [] st = ChunkStatusProcessing ->
         {ChunkStatusProcessing, ChunkStatusCompleted, ChunkStatusFailed}
    [] OTHER -> {st}

Segmented(r) == run[r].pc # "idle" /\ DOMAIN run[r].audioChunks # {}

\* C30: once the Splitter has returned, the job's chunks list has exactly
\* one entry per path it returned, chunk i carrying index i and the i-th
\* path, and the length of the list does not change afterwards: not in the
\* rest of the run, and not in the job the run saves.
C30_ChunksMatchSegments ==
  /\ [](\A r \in Runs :
          Segmented(r) =>
            /\ DOMAIN run[r].job.chunks = DOMAIN run[r].audioChunks
            /\ \A i \in DOMAIN run[r].audioChunks :
                 /\ run[r].job.chunks[i].index = i
                 /\ run[r].job.chunks[i].inputPath = run[r].audioChunks[i]
                 /\ run[r].job.chunks[i].inputPath = SegPath(i))
  /\ [][\A r \in Runs :
         (Segmented(r) /\ run'[r].pc # "idle") =>
           /\ NumChunks(run'[r].job) = NumChunks(run[r].job)
           /\ (repo' # repo /\ ~IsDeleteSave) =>
                \A j \in repo' : NumChunks(j) = NumChunks(run[r].job)]_vars

\* the Splitter returned three paths; the run has completed the job, whose
\* three chunks carry them in order
C30_Witness ==
  /\ run["r1"].pc = "done"
  /\ run["r1"].job.status = StatusCompleted
  /\ ~run["r1"].input.dryRun
  /\ DOMAIN run["r1"].audioChunks = {0, 1, 2}
  /\ run["r1"].job.chunks[2].inputPath = "chunk_002.wav"
  /\ run["r1"].job.chunks[2].index = 2
  /\ \E j \in repo : NumChunks(j) = 3

\* the answers at which the poll loop returns
TerminalAnswers == {"COMPLETED", "FAILED", "FAILED: msg", "CANCELLED", "TIMED_OUT"}

\* C31: a transport error of gen.Poll never makes the poll loop return, with
\* or without an error: after a transport error the loop is back in its
\* select, and unless the context is cancelled its next step is another poll;
\* the loop returns only on a terminal status or on cancellation.
C31_TransportErrorRetried ==
  /\ [](/\ LastSeen = "transport error" =>
             \/ poller.pc = "select" /\ poller.err = NoError /\ ~poller.ok
             \/ /\ poller.pc = "returned"
                /\ poller.cancelled
                /\ poller.err = ErrContextCancelled
        /\ poller.pc = "returned" =>
             \/ poller.cancelled /\ poller.err = ErrContextCancelled
             \/ LastSeen \in TerminalAnswers)
  /\ [][(LastSeen = "transport error" /\ poller' # poller) =>
          \/ /\ poller'.attempt = poller.attempt + 1
             /\ poller'.seen = Append(poller.seen, poller'.seen[Len(poller'.seen)])
          \/ poller'.cancelled /\ poller'.attempt = poller.attempt]_vars

\* two transport errors in a row, then the provider reports COMPLETED and
\* the loop returns the result
C31_Witness ==
  /\ poller.seen = <<"transport error", "transport error", "COMPLETED">>
  /\ poller.pc = "returned"
  /\ poller.ok
  /\ ~poller.cancelled

\* C32 as claimed: when extractChunks returns an error it returns no
\* segment paths and no segment file written in the call is left in the
\* output directory.
C32_Original ==
  (extractor.pc = "returned" /\ extractor.err # "") =>
    /\ extractor.returned = << >>
    /\ extractor.disk = {}

\* what the cleanup does achieve: no path is returned and every file of a
\* segment extracted before the failing one is gone
EarlierSegmentsRemoved ==
  (extractor.pc = "returned" /\ extractor.err # "") =>
    /\ extractor.returned = << >>
    /\ extractor.disk \subseteq {SegPath(extractor.i)}

\* segment 0 was extracted, the file of segment 1 was written and found
\* invalid twice: the call returned an error and no path, chunk_000.wav is
\* removed and chunk_001.wav is still in the output directory
C32_Witness ==
  /\ extractor.pc = "returned"
  /\ extractor.err # ""
  /\ extractor.returned = << >>
  /\ extractor.chunks = <<SegPath(0)>>
  /\ extractor.i = 1
  /\ extractor.disk = {SegPath(1)}

\* chunk i of run r has just been marked COMPLETED
MarkedCompleted(r, i) ==
  /\ i \in DOMAIN run[r].job.chunks
  /\ i \in DOMAIN run'[r].job.chunks
  /\ run[r].job.chunks[i].status # ChunkStatusCompleted
  /\ run'[r].job.chunks[i].status = ChunkStatusCompleted

\* C33: a chunk is COMPLETED, in the run's job and in the saved job, only
\* with the non-empty path of its local video file recorded; the step that
\* marks it is the end of processChunkWithGenerator, which has just written
\* that file by decoding the inline bytes or by DownloadOutput; and a chunk
\* whose provider job completed with neither inline video nor URL is FAILED
\* with no output path, in a job that is FAILED and whose run returns the
\* failure.
C33_CompletedWithOutput ==
  /\ [](/\ \A r \in Runs : \A i \in DOMAIN run[r].job.chunks :
            LET c == run[r].job.chunks[i]
            IN  /\ c.status = ChunkStatusCompleted =>
                     (c.outputPath # "" /\ c.outputPath = VideoPath(i))
                /\ c.error = ErrNoVideoOutput =>
                     /\ c.status = ChunkStatusFailed
                     /\ c.outputPath = ""
                     /\ run[r].job.status = StatusFailed
                     /\ (run[r].pc \in {"cleanup", "done"} /\ run[r].failedAt = i) =>
                          run[r].outcome.status = StatusFailed
        /\ \A j \in repo : \A i \in DOMAIN j.chunks :
             /\ j.chunks[i].status = ChunkStatusCompleted =>
                  j.chunks[i].outputPath # ""
             /\ j.chunks[i].error = ErrNoVideoOutput =>
                  (j.chunks[i].status = ChunkStatusFailed /\ j.status = StatusFailed))
  /\ [][\A r \in Runs : \A i \in 0..(MaxChunks - 1) :
          MarkedCompleted(r, i) =>
            /\ run[r].pc = "materialize"
            /\ run[r].i = i
            /\ run[r].job.chunks[i].status = ChunkStatusProcessing
            /\ VideoPath(i) \in run'[r].created \ run[r].created
            /\ run'[r].videoPaths = Append(run[r].videoPaths, VideoPath(i))]_vars

\* chunk 0 was completed with its file recorded, then the provider reported
\* chunk 1 completed with no video: chunk 1 and the job are FAILED
C33_Witness ==
  /\ run["r1"].pc = "done"
  /\ NumChunks(run["r1"].job) = 2
  /\ run["r1"].job.chunks[0].status = ChunkStatusCompleted
  /\ run["r1"].job.chunks[0].outputPath = "chunk_0.mp4"
  /\ run["r1"].job.chunks[1].status = ChunkStatusFailed
  /\ run["r1"].job.chunks[1].error = ErrNoVideoOutput
  /\ run["r1"].job.chunks[1].outputPath = ""
  /\ run["r1"].job.status = StatusFailed
  /\ run["r1"].outcome.status = StatusFailed

\* every chunk of job j is COMPLETED, and there is at least one
AllChunksCompleted(j) ==
  /\ NumChunks(j) > 0
  /\ \A i \in DOMAIN j.chunks : j.chunks[i].status = ChunkStatusCompleted

\* C34: a run calls JoinVideos at most once; the call is made with every
\* chunk of the job COMPLETED, and the list it is handed has one path per
\* chunk, the k-th being the recorded output of chunk k - 1.
C34_JoinOnce ==
  /\ [](\A r \in Runs :
          /\ run[r].joinCalls <= 1
          /\ run[r].joinCalls = 0 => run[r].joined = << >>
          /\ run[r].joinCalls = 1 =>
               /\ AllChunksCompleted(run[r].job)
               /\ Len(run[r].joined) = NumChunks(run[r].job)
               /\ \A k \in 1..Len(run[r].joined) :
                    /\ run[r].joined[k] = VideoPath(k - 1)
                    /\ run[r].joined[k] = run[r].job.chunks[k - 1].outputPath)
  /\ [][\A r \in Runs :
          run'[r].joinCalls > run[r].joinCalls =>
            /\ run[r].pc = "join"
            /\ run[r].joinCalls = 0
            /\ AllChunksCompleted(run[r].job)
            /\ run[r].i = NumChunks(run[r].job)
            /\ run'[r].joined = run[r].videoPaths]_vars

\* a run over three chunks has joined their three videos in order and
\* completed the job
C34_Witness ==
  /\ run["r1"].pc = "done"
  /\ run["r1"].joinCalls = 1
  /\ run["r1"].joined = <<"chunk_0.mp4", "chunk_1.mp4", "chunk_2.mp4">>
  /\ NumChunks(run["r1"].job) = 3
  /\ run["r1"].job.status = StatusCompleted

\* C35 as claimed: when a run has ended with its job COMPLETED and an
\* output video path recorded, the cleanup of that run has not deleted the
\* file at that path.
C35_Original ==
  \A r \in Runs :
    (/\ run[r].pc = "done"
     /\ run[r].job.status = StatusCompleted
     /\ run[r].job.outputVideoPath # "") =>
      run[r].job.outputVideoPath \notin run[r].cleaned

\* without remote delivery the recorded path is that of a file the cleanup
\* has left alone
KeptWithoutUpload ==
  \A r \in Runs :
    (/\ run[r].pc = "done"
     /\ run[r].job.status = StatusCompleted
     /\ run[r].job.outputVideoPath # ""
     /\ ~run[r].input.pushToS3) =>
      run[r].job.outputVideoPath \notin run[r].cleaned

\* a run with remote delivery has uploaded the joined video: the saved job is
\* COMPLETED with the URL and with the local path of the joined video, and
\* the run's cleanup has deleted the file at that path
C35_Witness ==
  /\ run["r1"].pc = "done"
  /\ run["r1"].input.pushToS3
  /\ run["r1"].job.status = StatusCompleted
  /\ run["r1"].job.outputVideoPath = OutputPath
  /\ run["r1"].job.videoURL # ""
  /\ OutputPath \in run["r1"].cleaned
  /\ \E j \in repo : j.status = StatusCompleted /\ j.outputVideoPath = OutputPath

\* run r has ended and its steps up to the join succeeded
Delivered(r) == run[r].pc = "done" /\ run[r].joinCalls = 1

\* C36: a run with remote delivery whose upload succeeded leaves the job
\* COMPLETED with the URL that UploadToS3 returned, in the job, in the saved
\* job and in the Outcome; a run without remote delivery leaves it COMPLETED
\* with the joined path and an empty URL; a run whose upload step failed
\* leaves it FAILED with no output path and no URL, and saves it so.
C36_Delivery ==
  /\ [](\A r \in Runs :
         LET j == run[r].job
         IN  /\ (Delivered(r) /\ run[r].uploadURL # "") =>
                  /\ run[r].input.pushToS3
                  /\ j.status = StatusCompleted
                  /\ j.videoURL = run[r].uploadURL
                  /\ run[r].outcome.videoURL = run[r].uploadURL
                  /\ run[r].outcome.status = StatusCompleted
             /\ (Delivered(r) /\ ~run[r].input.pushToS3
                   /\ run[r].outcome.error = NoError) =>
                  /\ j.status = StatusCompleted
                  /\ j.outputVideoPath = OutputPath
                  /\ j.videoURL = ""
                  /\ run[r].outcome.videoPath = OutputPath
                  /\ run[r].outcome.videoURL = ""
             /\ (Delivered(r) /\ run[r].input.pushToS3 /\ run[r].uploadURL = ""
                   /\ run[r].outcome.error # NoError
                   /\ Head(run[r].outcome.error) # "failed to join videos") =>
                  /\ j.status = StatusFailed
                  /\ j.outputVideoPath = ""
                  /\ j.videoURL = ""
                  /\ run[r].outcome.status = StatusFailed
                  /\ run[r].outcome.videoPath = ""
                  /\ run[r].outcome.videoURL = "")
  /\ [][\A r \in Runs :
          (run[r].pc = "upload" /\ run'[r].pc # "upload") =>
            /\ repo' = {run'[r].job}
            /\ \/ /\ run'[r].job.status = StatusCompleted
                  /\ run'[r].job.videoURL = run'[r].uploadURL
                  /\ run'[r].uploadURL \in UploadURLs
               \/ /\ run'[r].job.status = StatusFailed
                  /\ run'[r].job.videoURL = ""
                  /\ run'[r].job.outputVideoPath = ""
                  /\ run'[r].uploadURL = ""]_vars

\* remote delivery was requested and UploadToS3 returned the second URL: the
\* saved job is COMPLETED with that URL
C36_Witness ==
  /\ run["r1"].pc = "done"
  /\ run["r1"].input.pushToS3
  /\ run["r1"].uploadURL = "https://cdn/videos/job.mp4"
  /\ run["r1"].job.status = StatusCompleted
  /\ run["r1"].job.videoURL = "https://cdn/videos/job.mp4"
  /\ \E j \in repo : j.videoURL = "https://cdn/videos/job.mp4"

\* whether status s is terminal for the provider of the adapter
ProviderTerminal(s) ==
  IF adapter.provider = ProviderRunPod THEN runpodIsTerminal(s)
  ELSE beamIsTerminal(s)

\* the statuses the provider of the adapter declares
Declared ==
  IF adapter.provider = ProviderRunPod THEN RunPodStatuses ELSE BeamStatuses

\* the mappings the claim lists, for the k-th poll
ListedMappings(k) ==
  LET s == adapter.said[k]
      g == adapter.got[k]
  IN  /\ (adapter.provider = ProviderRunPod /\ s \in {"IN_PROGRESS", "RUNNING"}) =>
           g = StatusRunning
      /\ (adapter.provider = ProviderBeam /\ s \in {"COMPLETE", "COMPLETED"}) =>
           g = StatusCompleted
      /\ (adapter.provider = ProviderBeam /\ s \in {"ERROR", "FAILED"}) =>
           g = StatusFailed
      /\ (adapter.provider = ProviderBeam /\ s = "CANCELED") =>
           g = StatusCancelled

\* C37 as claimed: whatever status the provider's client reports, the
\* adapter returns a terminal common status if and only if the status is
\* terminal for the provider, with the listed mappings.
C37_Original ==
  \A k \in DOMAIN adapter.said :
    /\ ProviderTerminal(adapter.said[k]) <=> generatorIsTerminal(adapter.got[k])
    /\ ListedMappings(k)

\* C37, amended: for every status the provider's package declares, the
\* adapter returns a terminal common status if and only if the status is
\* terminal for the provider, with the listed mappings; a status the
\* package does not declare is returned unchanged.
C37_DeclaredStatuses ==
  \A k \in DOMAIN adapter.said :
    /\ Len(adapter.got) = Len(adapter.said)
    /\ adapter.said[k] \in Declared =>
         /\ ProviderTerminal(adapter.said[k]) <=> generatorIsTerminal(adapter.got[k])
         /\ adapter.got[k] \in Statuses \cup {"PENDING"}
    /\ adapter.said[k] \notin Declared => adapter.got[k] = adapter.said[k]
    /\ ListedMappings(k)

\* the Beam adapter was told ERROR, then CANCELED, and returned FAILED, then
\* CANCELLED
C37_Witness ==
  /\ adapter.provider = ProviderBeam
  /\ adapter.said = <<"ERROR", "CANCELED">>
  /\ adapter.got = <<StatusFailed, StatusCancelled>>

\* the failures doRequest does not wrap in retryableError
NonRetryableFailures == {"4xx", "unmarshal error"}

\* C38 as claimed: a call that returns a non-retryable error has made
\* exactly one attempt and has not waited.
C38_Original ==
  (request.pc = "returned" /\ request.err \in {ErrRequestFailed, ErrUnmarshal}) =>
    /\ Len(request.tried) = 1
    /\ request.waits = << >>

\* C38, amended: an attempt that meets a non-retryable failure is the last
\* one: the call returns that error at once, with no wait and no attempt
\* after it; when it is the first attempt, one attempt was made and there
\* was no wait at all.
C38_NotRetried ==
  LET n == Len(request.tried)
  IN  /\ \A k \in 1..n :
           request.tried[k] \in NonRetryableFailures =>
             /\ k = n
             /\ request.pc = "returned"
             /\ request.err = IF request.tried[k] = "4xx" THEN ErrRequestFailed
                              ELSE ErrUnmarshal
             /\ Len(request.waits) = n - 1
      /\ (n >= 1 /\ request.tried[1] \in NonRetryableFailures) =>
           (n = 1 /\ request.waits = << >>)
      /\ request.err \in {ErrRequestFailed, ErrUnmarshal} =>
           (n >= 1 /\ request.tried[n] \in NonRetryableFailures)

\* two retries were allowed; the first attempt got a 4xx response and the
\* call returned the error after that one attempt, without waiting
C38_Witness ==
  /\ request.pc = "returned"
  /\ request.maxRetries = 2
  /\ request.tried = <<"4xx">>
  /\ request.waits = << >>
  /\ request.err = ErrRequestFailed
  /\ ~request.cancelled

\* run r takes its cleanup step
CleanupStep(r) == run[r].pc = "cleanup" /\ run'[r].pc = "done"

\* C39: the deferred cleanup, whether CleanupTemp returns an error or not,
\* changes neither the run's job nor the saved job nor the Outcome the call
\* returns: the state after a failed cleanup is the state after a successful
\* one, but for the logged error.
C39_CleanupOnlyLogged ==
  [][\A r \in Runs :
       CleanupStep(r) =>
         /\ run'[r].job = run[r].job
         /\ run'[r].job.status = run[r].job.status
         /\ run'[r].job.error = run[r].job.error
         /\ run'[r].outcome = run[r].outcome
         /\ repo' = repo
         /\ [run'[r] EXCEPT !.cleanupErr = FALSE] =
              [run[r] EXCEPT !.cleaned = run[r].tempFiles, !.pc = "done"]]_vars

\* a completed run whose CleanupTemp returned an error: the job is
\* COMPLETED with no error and the Outcome says COMPLETED
C39_Witness ==
  /\ run["r1"].pc = "done"
  /\ run["r1"].cleanupErr
  /\ run["r1"].tempFiles # {}
  /\ run["r1"].job.status = StatusCompleted
  /\ run["r1"].job.error = NoError
  /\ run["r1"].outcome.status = StatusCompleted
  /\ run["r1"].outcome.error = NoError
  /\ \E j \in repo : j.status = StatusCompleted

\* C40 as claimed: every segment of a recording longer than the target,
\* the last one included, lasts more than one second.
C40_Original ==
  SplitLongRecording =>
    \A k \in DOMAIN splitter.result.segments :
      splitter.result.segments[k].end - splitter.result.segments[k].start
        > TicksPerSecond

\* every segment but the last lasts at least a second
SegmentsButLastLong ==
  SplitLongRecording =>
    \A k \in 1..(Len(splitter.result.segments) - 1) :
      splitter.result.segments[k].end - splitter.result.segments[k].start
        >= TicksPerSecond

\* a target of 3 seconds; the only cut is in the middle of a silence that
\* ends with the recording: the first segment is longer than a second and
\* the last one shorter
C40_Witness ==
  /\ SplitLongRecording
  /\ splitter.input.targetSec = 3
  /\ Len(splitter.input.silences) = 1
  /\ splitter.input.silences[1].end = splitter.input.duration
  /\ splitter.result.points = <<SilenceMiddle(splitter.input.silences[1])>>
  /\ splitter.result.points[1] > TicksPerSecond
  /\ splitter.input.duration - splitter.result.points[1] < TicksPerSecond
  /\ Len(splitter.result.segments) = 2

====
